---------------------------- MODULE Spec2Model ----------------------------
(***************************************************************************)
(* Running Bird: the session state machine of App.tsx and the simulation   *)
(* engine of GameCanvas (src/unnamed/part_000): resetGame, changeLane,     *)
(* doJump, nextLevel, spawnSegment/spawnObstacle and the per-frame         *)
(* animate() loop with its collision resolution.                           *)
(*                                                                         *)
(* Numbers are fixed point, so that every product the code forms is an     *)
(* integer:                                                                *)
(*   time (delta, timeRef, speedTimerRef, frameLag)   milliseconds         *)
(*   speedMultRef                                     halves (2 = 1.0)     *)
(*   dt = delta * speed                               half-milliseconds    *)
(*   lengths (segment z, obstacle z, scoreRef)        1/1000 unit          *)
(*   lanes (currentLane)                              1/1000 lane          *)
(*   playerVelY                                       1/2000 unit/s        *)
(*   jumpHeight                                       1/4000000 unit       *)
(* The only rounding is in the lane easing (Lerp), which floors to         *)
(* 1/1000 lane where the code rounds to a double.                          *)
(***************************************************************************)
EXTENDS Integers, Sequences, FiniteSets, TLC

----------------------------------------------------------------------------
(* Program constants (part_000 l.27-38), in the units above.               *)

SPEED_BASE == 16
JUMP_FORCE == 40
GRAVITY == -155
LANE_WIDTH == 3000
SEGMENT_LENGTH == 8000
MAX_HEALTH == 100
PHASE_DURATION == 60000
LANE_COUNT_FLAT == 7
LANE_COUNT_ROUND == 12

\* animate: "if (isNaN(delta) || delta > 0.1) delta = 0.1"
MAX_DELTA == 100
\* animate: "healthRef.current -= 20", "Math.min(MAX_HEALTH, health + 20)"
DAMAGE == 20
HEAL == 20
\* animate: "scoreRef.current += 500"
BOOST_SCORE == 500000
\* animate: "speedMultRef.current = 0.5; speedTimerRef.current = 5.0"
SLOW_MULT == 1
FULL_MULT == 2
SLOW_TIME == 5000
\* animate: "const distZ = obsWorldPos.z - 4.0", "distZ > 2.0", "distZ > 10",
\* "Math.abs(distZ) < 1.2", "const obsHeight = 1.5"
PLAYER_Z == 4000
PASSED_Z == 2000
REMOVE_Z == 10000
HIT_BAND == 1200
CLEAR_HEIGHT == 6000000
\* animate: "if (segmentsRef.current[0].position.z > 100)"
RETIRE_Z == 100000
\* resetGame: "for(let i=-10; i<30; i++) spawnSegment(i * SEGMENT_LENGTH)"
FIRST_SEGMENT == -10
SEGMENT_COUNT == 40

GameStates == {"MENU", "PLAYING", "PAUSED", "GAME_OVER", "LEVEL_COMPLETE"}
GamePhases == {"FLAT", "ROUND", "TUNNEL_GLOWING", "TUNNEL_CLEAN"}
ObstacleTypes == {"SIMPLE", "WALL", "INSTA_DEATH", "BULLET", "DOOR", "BALL",
                  "HEART", "SPEED_BOOST", "CLOCK_BLUE", "EXTRUDING"}
RenderStyles == {"GRID", "TILES"}

\* No setGameState request of animate is waiting to be rendered.
NoRequest == "NONE"
\* debugPhase before a level-select button was clicked (undefined).
NoPhase == "UNDEFINED"
\* onKeyDown / onKeyUp: the keys of isJumpKey, isLeftKey and isRightKey
JumpKeys == {" ", "w", "ArrowUp"}
LeftKeys == {"ArrowLeft", "a"}
RightKeys == {"ArrowRight", "d"}
Keys == JumpKeys \cup LeftKeys \cup RightKeys
\* No key repeats.
NoKey == "NONE"

----------------------------------------------------------------------------
VARIABLES
    \* App.tsx
    gameState,      \* useState(GameState.MENU): the rendered session state
    pendingState,   \* the last setGameState() request of animate not yet rendered
    menuSelection,  \* useState(0)
    debugPhase,     \* useState(undefined)
    renderStyle,    \* useState('GRID')
    isMusicPlaying, \* useState(false)
    wasPlayingRef,  \* useRef(false)
    isJumpKeyDown, isLeftKeyDown, isRightKeyDown,   \* useRef(false)
    \* the keyboard
    heldKeys,       \* the keys that are physically down
    repeatKey,      \* the key whose auto-repeat runs, or NoKey
    requests,       \* moveLeft/moveRight/jump calls made for the current press of each key
    \* AudioSystem
    isPlaying,      \* the sequencer runs
    \* GameCanvas refs
    gameStateRef,   \* the tick loop's copy of gameState, written by an effect
    emptyModeRef,
    scoreRef, timeRef, phaseRef, levelRef, healthRef,
    targetLane, currentLane,
    jumpHeight,     \* playerRef.current.userData.jumpHeight
    playerVelY,     \* playerVel.current.y
    isJumping,
    jumpSounds,     \* audioSystem.playJump() calls made by the newest doJump() call
    speedMultRef, speedTimerRef,
    frameLag,       \* newest frame timestamp minus lastTimeRef.current
    lastTimeNaN,    \* lastTimeRef.current is NaN
    segmentsRef,    \* position.z of each segment group, front of the queue first
    obstaclesRef,   \* ObstacleData records, in push order
    \* what the newest animate() call computed and emitted
    delta,          \* its clamped frame delta
    events,         \* its onEvent calls, in order
    heard,          \* what each of those calls could read: health, score, speed
    hud,            \* the arguments of its onUpdate call, or NoHud
    frames          \* animate() calls that ran the PLAYING block since startNewGame

appVars == <<gameState, pendingState, menuSelection, debugPhase, renderStyle>>
sessionVars == <<scoreRef, timeRef, phaseRef, levelRef, healthRef>>
playerVars == <<targetLane, currentLane, jumpHeight, playerVelY, isJumping, jumpSounds>>
speedVars == <<speedMultRef, speedTimerRef>>
clockVars == <<frameLag, lastTimeNaN>>
worldVars == <<segmentsRef, obstaclesRef>>
frameVars == <<delta, events, heard, hud, frames>>
simVars == <<sessionVars, playerVars, speedVars, worldVars>>
audioVars == <<isMusicPlaying, wasPlayingRef, isPlaying>>
keyVars == <<isJumpKeyDown, isLeftKeyDown, isRightKeyDown, heldKeys, repeatKey, requests>>
vars == <<appVars, audioVars, keyVars, gameStateRef, emptyModeRef, simVars, clockVars,
          frameVars>>

NoHud == [shown |-> FALSE]

----------------------------------------------------------------------------
(* Topology: lane ranges.                                                  *)

\* spawnObstacle: the lanes "Math.floor(Math.random() * LANE_COUNT) (- 3)" yields
ValidLanes(phase) ==
    IF phase = "FLAT" THEN (0 - 3)..(LANE_COUNT_FLAT - 4)
    ELSE 0..(LANE_COUNT_ROUND - 1)

\* changeLane with no clamp and no wrap
ChangeLaneUnbounded(phase, lane, dir) == lane + dir

\* changeLane that wraps around in every topology
ChangeLaneWrapped(phase, lane, dir) ==
    LET next == lane + dir
        max == IF phase = "FLAT" THEN 3 ELSE LANE_COUNT_ROUND - 1
        min == IF phase = "FLAT" THEN -3 ELSE 0
    IN IF next < min THEN max ELSE IF next > max THEN min ELSE next

\* changeLane(dir)
ChangeLaneTarget(phase, lane, dir) ==
    LET next == lane + dir IN
    IF phase = "FLAT"
    THEN IF next < -3 THEN -3 ELSE IF next > 3 THEN 3 ELSE next
    ELSE IF next < 0 THEN LANE_COUNT_ROUND - 1
         ELSE IF next >= LANE_COUNT_ROUND THEN 0 ELSE next

\* A phase cycle that leaves FLAT out
NextPhaseSkippingFlat(phase) ==
    CASE phase = "ROUND" -> "TUNNEL_GLOWING"
      [] phase = "TUNNEL_GLOWING" -> "TUNNEL_CLEAN"
      [] OTHER -> "ROUND"

\* nextLevel: the phase cycle
NextPhase(phase) ==
    CASE phase = "ROUND" -> "TUNNEL_GLOWING"
      [] phase = "TUNNEL_GLOWING" -> "TUNNEL_CLEAN"
      [] phase = "TUNNEL_CLEAN" -> "FLAT"
      [] OTHER -> "ROUND"

----------------------------------------------------------------------------
(* Spawning.  A draw is what Math.random() decided for one obstacle:        *)
(* [lane, r, tileRow] with r the type draw in hundredths; a segment's draw *)
(* is the sequence of its obstacles' draws (spawnCount of them).           *)

\* Type selection with the DOOR and WALL thresholds exchanged
TypeOfDrawDoorFirst(r) ==
    IF r > 95 THEN "HEART"
    ELSE IF r > 90 THEN "SPEED_BOOST"
    ELSE IF r > 85 THEN "CLOCK_BLUE"
    ELSE IF r > 75 THEN "BULLET"
    ELSE IF r > 65 THEN "EXTRUDING"
    ELSE IF r > 55 THEN "DOOR"
    ELSE IF r > 40 THEN "WALL"
    ELSE IF r > 25 THEN "BALL"
    ELSE "SIMPLE"

\* spawnObstacle: type selection by the thresholds on r
TypeOfDraw(r) ==
    IF r > 95 THEN "HEART"
    ELSE IF r > 90 THEN "SPEED_BOOST"
    ELSE IF r > 85 THEN "CLOCK_BLUE"
    ELSE IF r > 75 THEN "BULLET"
    ELSE IF r > 65 THEN "EXTRUDING"
    ELSE IF r > 55 THEN "WALL"
    ELSE IF r > 40 THEN "DOOR"
    ELSE IF r > 25 THEN "BALL"
    ELSE "SIMPLE"

\* spawnObstacle: "const zPos = (tileRow * LANE_WIDTH) + (LANE_WIDTH/2)"
TileZ(tileRow) == tileRow * LANE_WIDTH + LANE_WIDTH \div 2

\* spawnObstacle: the ObstacleData pushed for one draw into segment number seg.
\* hits counts the resolution effects applied to the instance.
NewObstacle(d, seg) ==
    [type |-> TypeOfDraw(d.r), lane |-> d.lane, z |-> TileZ(d.tileRow),
     seg |-> seg, exploded |-> FALSE, attached |-> TRUE, vertical |-> FALSE,
     hits |-> 0]

RECURSIVE SpawnObstacles(_, _, _)
SpawnObstacles(obs, draw, seg) ==
    IF draw = <<>> THEN obs
    ELSE SpawnObstacles(Append(obs, NewObstacle(Head(draw), seg)), Tail(draw), seg)

\* spawnSegment that spawns its obstacles in empty mode too
SpawnSegmentIgnoringEmpty(w, zPos, draw, empty) ==
    [segs |-> Append(w.segs, 0 - zPos),
     obs |-> SpawnObstacles(w.obs, draw, Len(w.segs) + 1)]

\* spawnSegment(zPos) on the world w = [segs, obs]
SpawnSegment(w, zPos, draw, empty) ==
    [segs |-> Append(w.segs, 0 - zPos),
     obs |-> IF empty THEN w.obs
             ELSE SpawnObstacles(w.obs, draw, Len(w.segs) + 1)]

\* A plan gives the draws of the segments resetGame spawns, numbered 1..40 in
\* spawn order; a segment it does not name gets spawnCount = 0.
PlanDraw(plan, k) == IF k \in DOMAIN plan THEN plan[k] ELSE <<>>

RECURSIVE SpawnAll(_, _, _, _)
SpawnAll(w, i, plan, empty) ==
    IF i >= FIRST_SEGMENT + SEGMENT_COUNT THEN w
    ELSE SpawnAll(SpawnSegment(w, i * SEGMENT_LENGTH, PlanDraw(plan, i - FIRST_SEGMENT + 1),
                               empty),
                  i + 1, plan, empty)

\* The world resetGame builds: "segmentsRef.current = []; obstaclesRef.current = [];
\* for(let i=-10; i<30; i++) spawnSegment(i * SEGMENT_LENGTH)"
FreshWorld(plan, empty) ==
    SpawnAll([segs |-> <<>>, obs |-> <<>>], FIRST_SEGMENT, plan, empty)

----------------------------------------------------------------------------
\* resetGame that clears the score on every reset
ResetGameClearingScore(fullReset, phase, level, plan) ==
    \E w \in {FreshWorld(plan, emptyModeRef)} :
    /\ scoreRef' = 0
    /\ levelRef' = IF fullReset THEN 1 ELSE level
    /\ healthRef' = IF fullReset THEN MAX_HEALTH ELSE healthRef
    /\ phaseRef' = IF fullReset THEN "ROUND" ELSE phase
    /\ timeRef' = PHASE_DURATION
    /\ targetLane' = 0
    /\ currentLane' = 0
    /\ playerVelY' = 0
    /\ isJumping' = FALSE
    /\ jumpHeight' = 0
    /\ speedMultRef' = FULL_MULT
    /\ segmentsRef' = w.segs
    /\ obstaclesRef' = w.obs
    /\ frames' = IF fullReset THEN 0 ELSE frames
    /\ UNCHANGED <<speedTimerRef, jumpSounds>>

\* resetGame that leaves healthRef alone on a full reset
ResetGameKeepingHealth(fullReset, phase, level, plan) ==
    \E w \in {FreshWorld(plan, emptyModeRef)} :
    /\ scoreRef' = IF fullReset THEN 0 ELSE scoreRef
    /\ levelRef' = IF fullReset THEN 1 ELSE level
    /\ healthRef' = healthRef
    /\ phaseRef' = IF fullReset THEN "ROUND" ELSE phase
    /\ timeRef' = PHASE_DURATION
    /\ targetLane' = 0
    /\ currentLane' = 0
    /\ playerVelY' = 0
    /\ isJumping' = FALSE
    /\ jumpHeight' = 0
    /\ speedMultRef' = FULL_MULT
    /\ segmentsRef' = w.segs
    /\ obstaclesRef' = w.obs
    /\ frames' = IF fullReset THEN 0 ELSE frames
    /\ UNCHANGED <<speedTimerRef, jumpSounds>>

\* resetGame that leaves targetLane alone
ResetGameKeepingLane(fullReset, phase, level, plan) ==
    \E w \in {FreshWorld(plan, emptyModeRef)} :
    /\ scoreRef' = IF fullReset THEN 0 ELSE scoreRef
    /\ levelRef' = IF fullReset THEN 1 ELSE level
    /\ healthRef' = IF fullReset THEN MAX_HEALTH ELSE healthRef
    /\ phaseRef' = IF fullReset THEN "ROUND" ELSE phase
    /\ timeRef' = PHASE_DURATION
    /\ targetLane' = targetLane
    /\ currentLane' = 0
    /\ playerVelY' = 0
    /\ isJumping' = FALSE
    /\ jumpHeight' = 0
    /\ speedMultRef' = FULL_MULT
    /\ segmentsRef' = w.segs
    /\ obstaclesRef' = w.obs
    /\ frames' = IF fullReset THEN 0 ELSE frames
    /\ UNCHANGED <<speedTimerRef, jumpSounds>>

\* resetGame(fullReset), called with phaseRef.current = phase and
\* levelRef.current = level
ResetGame(fullReset, phase, level, plan) ==
    \E w \in {FreshWorld(plan, emptyModeRef)} :
    /\ scoreRef' = IF fullReset THEN 0 ELSE scoreRef
    /\ levelRef' = IF fullReset THEN 1 ELSE level
    /\ healthRef' = IF fullReset THEN MAX_HEALTH ELSE healthRef
    /\ phaseRef' = IF fullReset THEN "ROUND" ELSE phase
    /\ timeRef' = PHASE_DURATION
    /\ targetLane' = 0
    /\ currentLane' = 0
    /\ playerVelY' = 0
    /\ isJumping' = FALSE
    /\ jumpHeight' = 0
    /\ speedMultRef' = FULL_MULT
    /\ segmentsRef' = w.segs
    /\ obstaclesRef' = w.obs
    /\ frames' = IF fullReset THEN 0 ELSE frames
    /\ UNCHANGED <<speedTimerRef, jumpSounds>>

----------------------------------------------------------------------------
(* animate(time): the pieces of one frame.                                 *)

\* The clamp switched off for finite deltas
ClampDeltaOff(isNaN, raw) == IF isNaN THEN MAX_DELTA ELSE raw

\* The clamp at 0.2 s instead of 0.1 s
ClampDeltaDouble(isNaN, raw) ==
    IF isNaN \/ raw > 2 * MAX_DELTA THEN MAX_DELTA ELSE raw

\* The clamp at 1 s instead of 0.1 s
ClampDeltaLoose(isNaN, raw) ==
    IF isNaN \/ raw > 10 * MAX_DELTA THEN MAX_DELTA ELSE raw

\* "let delta = (time - lastTimeRef.current)/1000;
\*  if (isNaN(delta) || delta > 0.1) delta = 0.1"
ClampDelta(isNaN, raw) ==
    IF isNaN \/ raw > MAX_DELTA THEN MAX_DELTA ELSE raw

\* The speed timer counted in slowed-down time (dt) instead of delta
\* The timer runs out and the multiplier stays
SpeedTimerStepNoRestore(timer, mult, d) ==
    IF timer > 0
    THEN [timer |-> timer - d, mult |-> mult]
    ELSE [timer |-> timer, mult |-> mult]

SpeedTimerStepSlowed(timer, mult, d) ==
    IF timer > 0
    THEN [timer |-> timer - (d * mult) \div 2,
          mult |-> IF timer - (d * mult) \div 2 <= 0 THEN FULL_MULT ELSE mult]
    ELSE [timer |-> timer, mult |-> mult]

\* "if (speedTimerRef.current > 0) { speedTimerRef.current -= delta;
\*      if (speedTimerRef.current <= 0) speedMultRef.current = 1.0; }"
SpeedTimerStep(timer, mult, d) ==
    IF timer > 0
    THEN [timer |-> timer - d,
          mult |-> IF timer - d <= 0 THEN FULL_MULT ELSE mult]
    ELSE [timer |-> timer, mult |-> mult]

\* The level ends only once the countdown is below zero
TimeUpBelowZero(time) == time < 0

\* "if (timeRef.current <= 0) setGameState(GameState.LEVEL_COMPLETE)"
TimeUp(time) == time <= 0

\* "const dist = moveSpeed * moveDt", dt in half-milliseconds
Dist(dtH) == (SPEED_BASE * dtH) \div 2

\* "obs.mesh.position.z += obs.params.speed * dt", params.speed = SPEED_BASE * 2.0
BulletAdvance(dtH) == (SPEED_BASE * 2 * dtH) \div 2

\* "segmentsRef.current.forEach(s => { s.position.z += dist; ... })"
MoveSegments(segs, dist) == [k \in 1..Len(segs) |-> segs[k] + dist]

\* An obstacle after the front segment was shifted out of segmentsRef: the
\* retired group keeps its position, which is folded into the obstacle's z.
Reparent(o, retiredZ) ==
    IF o.seg = 0 THEN o
    ELSE IF o.seg = 1 THEN [o EXCEPT !.seg = 0, !.z = @ + retiredZ]
    ELSE [o EXCEPT !.seg = @ - 1]

ReparentAll(obs, retiredZ) == [k \in 1..Len(obs) |-> Reparent(obs[k], retiredZ)]

\* Recycling that retires the front segment and spawns none
RecycleWithoutSpawn(w, draw, empty) ==
    IF w.segs # <<>> /\ Head(w.segs) > RETIRE_Z
    THEN [segs |-> Tail(w.segs), obs |-> ReparentAll(w.obs, Head(w.segs))]
    ELSE w

\* "if (segmentsRef.current[0].position.z > 100) { shift(); remove(rem);
\*      if (last) spawnSegment(-last.position.z + SEGMENT_LENGTH); }"
Recycle(w, draw, empty) ==
    IF w.segs # <<>> /\ Head(w.segs) > RETIRE_Z
    THEN LET rest == Tail(w.segs)
             kept == [segs |-> rest, obs |-> ReparentAll(w.obs, Head(w.segs))]
         IN IF rest = <<>> THEN kept
            ELSE SpawnSegment(kept, (0 - rest[Len(rest)]) + SEGMENT_LENGTH, draw, empty)
    ELSE w

\* Whether this frame retires a segment (and so draws a new one)
Recycles(segs, dist) ==
    segs # <<>> /\ Head(segs) + dist > RETIRE_Z

\* "current + diff * speed" with speed = playerLerpSpeed = 12 * dt
LerpStep(current, diff, dtH) == current + (diff * 3 * dtH) \div 500

RECURSIVE WrapDiff(_, _)
WrapDiff(diff, max) ==
    IF 2 * diff > max THEN WrapDiff(diff - max, max)
    ELSE IF 2 * diff < 0 - max THEN WrapDiff(diff + max, max)
    ELSE diff

\* lerpCyclic(current, target, speed, max)
LerpCyclic(current, target, dtH, max) ==
    LerpStep(current, WrapDiff(target - current, max), dtH)

\* The lane easing of one frame: THREE.MathUtils.lerp in FLAT, lerpCyclic otherwise
EaseLane(phase, current, tLane, dtH) ==
    IF phase = "FLAT" THEN LerpStep(current, tLane * 1000 - current, dtH)
    ELSE LerpCyclic(current, tLane * 1000, dtH, LANE_COUNT_ROUND * 1000)

\* The jump physics of one frame
\* The jump physics without the landing test
JumpStepNoLanding(jumping, jh, vel, dtH) ==
    IF jumping
    THEN [jumping |-> TRUE, jh |-> jh + vel * dtH, vel |-> vel + GRAVITY * dtH]
    ELSE [jumping |-> FALSE, jh |-> jh, vel |-> vel]

JumpStep(jumping, jh, vel, dtH) ==
    IF jumping
    THEN LET h == jh + vel * dtH
             v == vel + GRAVITY * dtH
         IN IF h <= 0 THEN [jumping |-> FALSE, jh |-> 0, vel |-> 0]
            ELSE [jumping |-> TRUE, jh |-> h, vel |-> v]
    ELSE [jumping |-> FALSE, jh |-> jh, vel |-> vel]

\* JavaScript's % (the sign of the dividend)
JsRem(a, n) == IF a >= 0 THEN a % n ELSE 0 - ((0 - a) % n)

\* "let pLane = Math.round(currentLane.current);
\*  if (phaseRef.current === GamePhase.ROUND) { if (pLane < 0) pLane += 12; pLane = pLane % 12; }"
PlayerLane(phase, current) ==
    LET rounded == (current + 500) \div 1000 IN
    IF phase = "ROUND"
    THEN JsRem(IF rounded < 0 THEN rounded + 12 ELSE rounded, 12)
    ELSE rounded

\* obs.mesh.getWorldPosition(obsWorldPos).z
ObstacleWorldZ(o, segs) == (IF o.seg > 0 THEN segs[o.seg] ELSE 0) + o.z

\* "if (obs.exploded || !obs.mesh.parent) return"
Skipped(o) == o.exploded \/ ~o.attached

\* Removed without its marks: the instance stays live after its resolution
RemovedUnmarked(o) == o

\* "obs.exploded = true; if (obs.mesh.parent) obs.mesh.parent.remove(obs.mesh)"
Removed(o) == [o EXCEPT !.exploded = TRUE, !.attached = FALSE, !.seg = 0]

\* "const clearedJump = (jH > obsHeight) && !obs.params.vertical"
ClearedJump(o, jH) == jH > CLEAR_HEIGHT /\ ~o.vertical

\* A hit that calls onEvent before it changes health, score or speed
HitEffectEventFirst(o, a) ==
    LET name == CASE o.type = "HEART" -> "COLLECT"
                  [] o.type = "SPEED_BOOST" -> "BOOST"
                  [] o.type = "CLOCK_BLUE" -> "COLLECT"
                  [] OTHER -> "DAMAGE"
        told == [a EXCEPT !.events = Append(@, name),
                          !.heard = Append(@, [health |-> a.health, score |-> a.score,
                                               mult |-> a.mult, timer |-> a.timer])]
        b == CASE o.type = "HEART" ->
                    [told EXCEPT !.health = IF @ + HEAL > MAX_HEALTH THEN MAX_HEALTH
                                            ELSE @ + HEAL]
               [] o.type = "SPEED_BOOST" -> [told EXCEPT !.score = @ + BOOST_SCORE]
               [] o.type = "CLOCK_BLUE" -> [told EXCEPT !.mult = SLOW_MULT, !.timer = SLOW_TIME]
               [] OTHER -> [told EXCEPT !.health = @ - DAMAGE]
    IN IF b.health <= 0 THEN [b EXCEPT !.request = "GAME_OVER"] ELSE b

\* "onEvent && onEvent(...)": what the listener can see of the session when
\* it is called, after the change of the branch that calls it
Heard(b) ==
    [b EXCEPT !.heard = Append(@, [health |-> b.health, score |-> b.score,
                                   mult |-> b.mult, timer |-> b.timer])]

\* A hit where a SPEED_BOOST also heals, like a HEART
HitEffectBoostHeals(o, a) ==
    LET b == CASE o.type = "HEART" ->
                    [a EXCEPT !.health = IF @ + HEAL > MAX_HEALTH THEN MAX_HEALTH ELSE @ + HEAL,
                              !.events = Append(@, "COLLECT")]
               [] o.type = "SPEED_BOOST" ->
                    [a EXCEPT !.score = @ + BOOST_SCORE,
                              !.health = IF @ + HEAL > MAX_HEALTH THEN MAX_HEALTH ELSE @ + HEAL,
                              !.events = Append(@, "BOOST")]
               [] o.type = "CLOCK_BLUE" ->
                    [a EXCEPT !.mult = SLOW_MULT, !.timer = SLOW_TIME,
                              !.events = Append(@, "COLLECT")]
               [] OTHER ->
                    [a EXCEPT !.health = @ - DAMAGE,
                              !.events = Append(@, "DAMAGE")]
        told == Heard(b)
    IN IF told.health <= 0 THEN [told EXCEPT !.request = "GAME_OVER"] ELSE told

\* A hit whose damage is 10 instead of 20
HitEffectHalfDamage(o, a) ==
    LET b == CASE o.type = "HEART" ->
                    [a EXCEPT !.health = IF @ + HEAL > MAX_HEALTH THEN MAX_HEALTH ELSE @ + HEAL,
                              !.events = Append(@, "COLLECT")]
               [] o.type = "SPEED_BOOST" ->
                    [a EXCEPT !.score = @ + BOOST_SCORE,
                              !.events = Append(@, "BOOST")]
               [] o.type = "CLOCK_BLUE" ->
                    [a EXCEPT !.mult = SLOW_MULT, !.timer = SLOW_TIME,
                              !.events = Append(@, "COLLECT")]
               [] OTHER ->
                    [a EXCEPT !.health = @ - DAMAGE \div 2,
                              !.events = Append(@, "DAMAGE")]
        told == Heard(b)
    IN IF told.health <= 0 THEN [told EXCEPT !.request = "GAME_OVER"] ELSE told

\* The effect of a hit on the running values a = [health, score, mult, timer,
\* request, events]: the HIT! branch, without the removal
HitEffect(o, a) ==
    LET b == CASE o.type = "HEART" ->
                    [a EXCEPT !.health = IF @ + HEAL > MAX_HEALTH THEN MAX_HEALTH ELSE @ + HEAL,
                              !.events = Append(@, "COLLECT")]
               [] o.type = "SPEED_BOOST" ->
                    [a EXCEPT !.score = @ + BOOST_SCORE,
                              !.events = Append(@, "BOOST")]
               [] o.type = "CLOCK_BLUE" ->
                    [a EXCEPT !.mult = SLOW_MULT, !.timer = SLOW_TIME,
                              !.events = Append(@, "COLLECT")]
               [] OTHER ->
                    [a EXCEPT !.health = @ - DAMAGE,
                              !.events = Append(@, "DAMAGE")]
        told == Heard(b)
    IN IF told.health <= 0 THEN [told EXCEPT !.request = "GAME_OVER"] ELSE told

\* The loop body without the removal of an obstacle far behind the player
\* Passed obstacles marked only once they are further behind than a retired segment
ObstacleStepMarkingLate(o, segs, dtH, pLane, jH, a) ==
    IF Skipped(o) THEN [a EXCEPT !.obs = Append(@, o)]
    ELSE LET moved == IF o.type = "BULLET"
                      THEN [o EXCEPT !.z = @ + BulletAdvance(dtH)] ELSE o
             distZ == ObstacleWorldZ(moved, segs) - PLAYER_Z
             absZ == IF distZ < 0 THEN 0 - distZ ELSE distZ
         IN IF distZ > PASSED_Z
            THEN [a EXCEPT !.obs = Append(@, IF distZ > 2 * RETIRE_Z THEN Removed(moved)
                                             ELSE moved)]
            ELSE IF absZ < HIT_BAND /\ pLane = o.lane /\ ~ClearedJump(o, jH)
                 THEN [HitEffect(o, a) EXCEPT
                          !.obs = Append(@, [Removed(moved) EXCEPT !.hits = @ + 1])]
                 ELSE [a EXCEPT !.obs = Append(@, moved)]

ObstacleStepKeepingPassed(o, segs, dtH, pLane, jH, a) ==
    IF Skipped(o) THEN [a EXCEPT !.obs = Append(@, o)]
    ELSE LET moved == IF o.type = "BULLET"
                      THEN [o EXCEPT !.z = @ + BulletAdvance(dtH)] ELSE o
             distZ == ObstacleWorldZ(moved, segs) - PLAYER_Z
             absZ == IF distZ < 0 THEN 0 - distZ ELSE distZ
         IN IF distZ > PASSED_Z
            THEN [a EXCEPT !.obs = Append(@, moved)]
            ELSE IF absZ < HIT_BAND /\ pLane = o.lane /\ ~ClearedJump(o, jH)
                 THEN [HitEffect(o, a) EXCEPT
                          !.obs = Append(@, [Removed(moved) EXCEPT !.hits = @ + 1])]
                 ELSE [a EXCEPT !.obs = Append(@, moved)]

\* One pass of "obstaclesRef.current.forEach(obs => ...)" over obstacle o
ObstacleStep(o, segs, dtH, pLane, jH, a) ==
    IF Skipped(o) THEN [a EXCEPT !.obs = Append(@, o)]
    ELSE LET moved == IF o.type = "BULLET"
                      THEN [o EXCEPT !.z = @ + BulletAdvance(dtH)] ELSE o
             distZ == ObstacleWorldZ(moved, segs) - PLAYER_Z
             absZ == IF distZ < 0 THEN 0 - distZ ELSE distZ
         IN IF distZ > PASSED_Z
            THEN [a EXCEPT !.obs = Append(@, IF distZ > REMOVE_Z THEN Removed(moved)
                                             ELSE moved)]
            ELSE IF absZ < HIT_BAND /\ pLane = o.lane /\ ~ClearedJump(o, jH)
                 THEN [HitEffect(o, a) EXCEPT
                          !.obs = Append(@, [Removed(moved) EXCEPT !.hits = @ + 1])]
                 ELSE [a EXCEPT !.obs = Append(@, moved)]

RECURSIVE ObstacleLoop(_, _, _, _, _, _)
ObstacleLoop(todo, segs, dtH, pLane, jH, a) ==
    IF todo = <<>> THEN a
    ELSE ObstacleLoop(Tail(todo), segs, dtH, pLane, jH,
                      ObstacleStep(Head(todo), segs, dtH, pLane, jH, a))

\* "Math.floor(scoreRef.current)", "Math.ceil(timeRef.current)"
HudScore(score) == score \div 1000
HudTime(time) == 0 - ((0 - time) \div 1000)

----------------------------------------------------------------------------
(* animate(time).  gap is how far the frame's timestamp lies after the     *)
(* previous frame's, nan says the timestamp is NaN, draw is what            *)
(* Math.random() decides for the segment this frame spawns, if it does.    *)

\* A paused frame that still runs the countdown
PausedFrameCounting(gap, nan) ==
    /\ frameLag' = IF nan \/ lastTimeNaN THEN frameLag ELSE frameLag + gap
    /\ timeRef' = timeRef - MAX_DELTA
    /\ delta' = 0
    /\ events' = <<>>
    /\ heard' = <<>>
    /\ hud' = NoHud
    /\ UNCHANGED <<appVars, gameStateRef, audioVars, emptyModeRef, keyVars, scoreRef, phaseRef, levelRef,
                   healthRef, playerVars, speedVars, worldVars, lastTimeNaN, frames>>

\* "if (gameStateRef.current === GameState.PAUSED) return"
PausedFrame(gap, nan) ==
    /\ frameLag' = IF nan \/ lastTimeNaN THEN frameLag ELSE frameLag + gap
    /\ delta' = 0
    /\ events' = <<>>
    /\ heard' = <<>>
    /\ hud' = NoHud
    /\ UNCHANGED <<appVars, gameStateRef, audioVars, emptyModeRef, keyVars, simVars, lastTimeNaN, frames>>

\* An idle frame that reports to the HUD all the same
IdleFrameWithHud(d, sp) ==
    /\ speedTimerRef' = sp.timer
    /\ speedMultRef' = sp.mult
    /\ events' = <<>>
    /\ heard' = <<>>
    /\ hud' = [shown |-> TRUE, score |-> HudScore(scoreRef), time |-> HudTime(timeRef),
               phase |-> phaseRef, state |-> gameStateRef, health |-> healthRef,
               level |-> levelRef]
    /\ UNCHANGED <<appVars, gameStateRef, audioVars, emptyModeRef, keyVars, sessionVars, playerVars,
                   worldVars, frames>>

\* The frame in MENU, GAME_OVER and LEVEL_COMPLETE: the delta and the speed timer
IdleFrame(d, sp) ==
    /\ speedTimerRef' = sp.timer
    /\ speedMultRef' = sp.mult
    /\ events' = <<>>
    /\ heard' = <<>>
    /\ hud' = NoHud
    /\ UNCHANGED <<appVars, gameStateRef, audioVars, emptyModeRef, keyVars, sessionVars, playerVars,
                   worldVars, frames>>

\* "if (gameStateRef.current === GameState.PLAYING) { ... }"
PlayingFrame(d, sp, draw) ==
    LET dtH == d * speedMultRef
        dist == Dist(dtH)
        time1 == timeRef - d
        cur == EaseLane(phaseRef, currentLane, targetLane, dtH)
        j == JumpStep(isJumping, jumpHeight, playerVelY, dtH)
    IN /\ draw # <<>> => Recycles(segmentsRef, dist)
       /\ \E w \in {Recycle([segs |-> MoveSegments(segmentsRef, dist),
                             obs |-> obstaclesRef], draw, emptyModeRef)} :
          \E a \in {ObstacleLoop(w.obs, w.segs, dtH, PlayerLane(phaseRef, cur), j.jh,
                       [obs |-> <<>>, health |-> healthRef, score |-> scoreRef + dist,
                        mult |-> sp.mult, timer |-> sp.timer,
                        request |-> IF TimeUp(time1) THEN "LEVEL_COMPLETE"
                                    ELSE pendingState,
                        events |-> <<>>, heard |-> <<>>])} :
             /\ scoreRef' = a.score
             /\ healthRef' = a.health
             /\ pendingState' = a.request
             /\ speedMultRef' = a.mult
             /\ speedTimerRef' = a.timer
             /\ segmentsRef' = w.segs
             /\ obstaclesRef' = a.obs
             /\ events' = a.events
             /\ heard' = a.heard
             /\ hud' = [shown |-> TRUE, score |-> HudScore(a.score),
                        time |-> HudTime(time1), phase |-> phaseRef,
                        state |-> gameStateRef, health |-> a.health,
                        level |-> levelRef]
       /\ timeRef' = time1
       /\ currentLane' = cur
       /\ isJumping' = j.jumping
       /\ jumpHeight' = j.jh
       /\ playerVelY' = j.vel
       /\ frames' = frames + 1
       /\ UNCHANGED <<gameState, menuSelection, debugPhase, renderStyle, gameStateRef, audioVars,
                      emptyModeRef, keyVars, phaseRef, levelRef, targetLane, jumpSounds>>

Animate(gap, nan, draw) ==
    IF gameStateRef = "PAUSED" THEN draw = <<>> /\ PausedFrame(gap, nan)
    ELSE LET d == ClampDelta(nan \/ lastTimeNaN, frameLag + gap)
             sp == SpeedTimerStep(speedTimerRef, speedMultRef, d)
         IN /\ frameLag' = 0
            /\ lastTimeNaN' = nan
            /\ delta' = d
            /\ IF gameStateRef = "PLAYING" THEN PlayingFrame(d, sp, draw)
               ELSE draw = <<>> /\ IdleFrame(d, sp)

----------------------------------------------------------------------------
(* React.  A setGameState() of animate is rendered later (Render) and the  *)
(* effects of that render run later still (SyncEffects).  A keyboard,      *)
(* mouse or touch handler is a discrete event: React renders its state     *)
(* change and runs the effects before any other task, and runs the         *)
(* effects still waiting from an earlier render first.                     *)

\* The gameState the registered key listeners closed over: they are
\* re-registered by the App effect with deps [gameState, ...], which runs in
\* the same pass as GameCanvas' "gameStateRef.current = gameState"
ListenerState == gameStateRef

\* The music flags as one record
Audio == [music |-> isMusicPlaying, was |-> wasPlayingRef, playing |-> isPlaying]

AudioIs(a) ==
    /\ isMusicPlaying' = a.music
    /\ wasPlayingRef' = a.was
    /\ isPlaying' = a.playing

\* App's effect on gameState: "if (gameState === PAUSED) { wasPlayingRef.current =
\* isMusicPlaying; if (isMusicPlaying) { audioSystem.pause(); setIsMusicPlaying(false) } }
\* else if (gameState === PLAYING) { if (wasPlayingRef.current) { audioSystem.resume();
\* setIsMusicPlaying(true); wasPlayingRef.current = false } }"
AudioEffect(state, a) ==
    IF state = "PAUSED"
    THEN [music |-> FALSE, was |-> a.music,
          playing |-> IF a.music THEN FALSE ELSE a.playing]
    ELSE IF state = "PLAYING" /\ a.was
         THEN [music |-> TRUE, was |-> FALSE, playing |-> TRUE]
         ELSE a

\* The music flags once the effects still waiting from the last render have run
Flushed == IF gameStateRef # gameState THEN AudioEffect(gameState, Audio) ELSE Audio

\* The waiting effects of the last render run
FlushEffects ==
    /\ gameStateRef' = gameState
    /\ AudioIs(Flushed)

\* setGameState(s) at the end of a handler that left the music flags as a,
\* rendered with its effects
SetGameStateAfter(s, a) ==
    /\ gameState' = s
    /\ pendingState' = NoRequest
    /\ gameStateRef' = s
    /\ AudioIs(IF s # gameState THEN AudioEffect(s, a) ELSE a)

\* setGameState(s) from a handler, rendered with its effects
SetGameState(s) == SetGameStateAfter(s, Flushed)

\* React renders the state animate asked for; the effects still waiting from
\* the render before run first
Render ==
    /\ pendingState # NoRequest
    /\ FlushEffects
    /\ gameState' = pendingState
    /\ pendingState' = NoRequest
    /\ UNCHANGED <<menuSelection, debugPhase, renderStyle, emptyModeRef, keyVars, simVars,
                   clockVars, frameVars>>

\* "useEffect(() => { gameStateRef.current = gameState; }, [gameState])"
SyncEffects ==
    /\ gameStateRef # gameState
    /\ FlushEffects
    /\ UNCHANGED <<appVars, emptyModeRef, keyVars, simVars, clockVars, frameVars>>

\* menuOptions, as the actions of the options in order
MenuOptions(state) ==
    CASE state = "MENU" -> <<"start">>
      [] state = "PAUSED" -> <<"resume", "exit">>
      [] state = "GAME_OVER" -> <<"start", "exit">>
      [] state = "LEVEL_COMPLETE" -> <<"next", "exit">>
      [] OTHER -> <<>>

\* "menuOptions[menuSelection]?.action"
SelectedAction(state) ==
    IF menuSelection + 1 <= Len(MenuOptions(state))
    THEN MenuOptions(state)[menuSelection + 1] ELSE "undefined"

\* A plan that spawns no obstacle
EmptyPlan == <<>>

\* nextLevel()
NextLevel(plan) ==
    ResetGame(FALSE, NextPhase(phaseRef), levelRef + 1, plan)

\* handleAction(action)
HandleAction(action, plan) ==
    CASE action = "start" ->
            /\ ResetGame(TRUE, phaseRef, levelRef, plan)
            /\ SetGameStateAfter("PLAYING", [Flushed EXCEPT !.playing = TRUE, !.was = FALSE])
            /\ UNCHANGED <<menuSelection, debugPhase, renderStyle, emptyModeRef, clockVars,
                           delta, events, heard, hud>>
      [] action = "resume" ->
            /\ plan = EmptyPlan
            /\ SetGameState("PLAYING")
            /\ UNCHANGED <<menuSelection, debugPhase, renderStyle, emptyModeRef, simVars,
                           clockVars, frameVars>>
      [] action = "exit" ->
            /\ plan = EmptyPlan
            /\ SetGameStateAfter("MENU", [music |-> FALSE, was |-> FALSE, playing |-> FALSE])
            /\ UNCHANGED <<menuSelection, debugPhase, renderStyle, emptyModeRef, simVars,
                           clockVars, frameVars>>
      [] action = "next" ->
            /\ NextLevel(plan)
            /\ SetGameState("PLAYING")
            /\ UNCHANGED <<menuSelection, debugPhase, renderStyle, emptyModeRef, clockVars,
                           delta, events, heard, hud>>
      [] OTHER ->
            /\ plan = EmptyPlan
            /\ FlushEffects
            /\ UNCHANGED <<appVars, emptyModeRef, simVars, clockVars, frameVars>>

----------------------------------------------------------------------------
(* Input handlers of App.tsx.                                               *)

\* moveLeft / moveRight: changeLane(dir), after setActiveActions
MoveLane(dir) ==
    /\ targetLane' = ChangeLaneTarget(phaseRef, targetLane, dir)
    /\ FlushEffects
    /\ UNCHANGED <<appVars, emptyModeRef, sessionVars, currentLane, jumpHeight,
                   playerVelY, isJumping, jumpSounds, speedVars, worldVars, clockVars,
                   frameVars>>

\* doJump() without its "if (!isJumping.current)": a jump from mid-air
DoJumpInMidAir ==
    /\ isJumping' = TRUE
    /\ playerVelY' = JUMP_FORCE * 2000
    /\ jumpSounds' = 1
    /\ FlushEffects
    /\ UNCHANGED <<appVars, emptyModeRef, sessionVars, targetLane, currentLane,
                   jumpHeight, speedVars, worldVars, clockVars, frameVars>>

\* jump: doJump(), after setActiveActions
DoJump ==
    /\ isJumping' = TRUE
    /\ playerVelY' = IF isJumping THEN playerVelY ELSE JUMP_FORCE * 2000
    /\ jumpSounds' = IF isJumping THEN 0 ELSE 1
    /\ FlushEffects
    /\ UNCHANGED <<appVars, emptyModeRef, sessionVars, targetLane, currentLane,
                   jumpHeight, speedVars, worldVars, clockVars, frameVars>>

\* A lane key tapped while its flag is clear: onKeyDown, PLAYING branch, ArrowLeft / a
\* (dir = -1) or ArrowRight / d (dir = 1), then the onKeyUp that clears the flag again
KeyLane(dir) == ListenerState = "PLAYING" /\ MoveLane(dir) /\ UNCHANGED keyVars

\* A jump key (space / w / ArrowUp) tapped while its flag is clear: onKeyDown,
\* PLAYING branch, then the onKeyUp that clears the flag again
KeyJump == ListenerState = "PLAYING" /\ DoJump /\ UNCHANGED keyVars

\* Escape without the PLAYING branch around it
KeyEscapeAnywhere ==
    /\ SetGameState("PAUSED")
    /\ UNCHANGED <<menuSelection, debugPhase, renderStyle, emptyModeRef, keyVars, simVars,
                   clockVars, frameVars>>

\* onKeyDown, PLAYING branch: "if (e.key === 'Escape') setGameState(GameState.PAUSED)"
KeyEscape ==
    /\ ListenerState = "PLAYING"
    /\ SetGameState("PAUSED")
    /\ UNCHANGED <<menuSelection, debugPhase, renderStyle, emptyModeRef, keyVars, simVars,
                   clockVars, frameVars>>

\* onKeyDown, menu branch: ArrowUp (dir = -1), ArrowDown (dir = 1)
KeyMenuNav(dir) ==
    LET n == Len(MenuOptions(ListenerState)) IN
    /\ ListenerState # "PLAYING"
    /\ menuSelection' = JsRem(IF dir < 0 THEN menuSelection - 1 + n ELSE menuSelection + 1, n)
    /\ FlushEffects
    /\ UNCHANGED <<gameState, pendingState, debugPhase, renderStyle, emptyModeRef, keyVars,
                   simVars, clockVars, frameVars>>

\* onKeyDown, menu branch: Enter / space
KeyConfirm(plan) ==
    /\ ListenerState # "PLAYING"
    /\ HandleAction(SelectedAction(ListenerState), plan)
    /\ UNCHANGED keyVars

\* The play button of the music player, clickable while no menu covers it:
\* "audioSystem.togglePlayback(); setIsMusicPlaying(p => !p);
\*  wasPlayingRef.current = !isMusicPlaying"
TogglePlay ==
    /\ gameState = "PLAYING"
    /\ gameStateRef' = gameState
    /\ AudioIs([music |-> ~Flushed.music, was |-> ~Flushed.music,
                playing |-> ~Flushed.playing])
    /\ UNCHANGED <<appVars, emptyModeRef, keyVars, simVars, clockVars, frameVars>>

\* A handler that only lets the waiting effects run
NothingHandled ==
    /\ FlushEffects
    /\ UNCHANGED <<appVars, emptyModeRef, simVars, clockVars, frameVars>>

\* isJumpKeyDown / isLeftKeyDown / isRightKeyDown, for the action of key
KeyFlag(key) ==
    IF key \in JumpKeys THEN isJumpKeyDown
    ELSE IF key \in LeftKeys THEN isLeftKeyDown ELSE isRightKeyDown

\* The three flags with that of key's action set to b
FlagsWith(key, b) ==
    /\ isJumpKeyDown' = IF key \in JumpKeys THEN b ELSE isJumpKeyDown
    /\ isLeftKeyDown' = IF key \in LeftKeys THEN b ELSE isLeftKeyDown
    /\ isRightKeyDown' = IF key \in RightKeys THEN b ELSE isRightKeyDown

\* onKeyDown for a lane or jump key, e.repeat = rep; req counts the requests
\* made so far for the key's current press
OnKeyDown(key, rep, plan, req) ==
    IF ListenerState = "PLAYING"
    THEN /\ plan = EmptyPlan
         /\ IF KeyFlag(key)
            THEN /\ NothingHandled
                 /\ FlagsWith(key, TRUE)
                 /\ requests' = req
            ELSE /\ FlagsWith(key, TRUE)
                 /\ requests' = [req EXCEPT ![key] = @ + 1]
                 /\ IF key \in JumpKeys THEN DoJump
                    ELSE MoveLane(IF key \in LeftKeys THEN -1 ELSE 1)
    ELSE /\ UNCHANGED <<isJumpKeyDown, isLeftKeyDown, isRightKeyDown>>
         /\ requests' = req
         /\ IF rep \/ key \notin {"ArrowUp", " "}
            THEN plan = EmptyPlan /\ NothingHandled
            ELSE IF key = " "
                 THEN HandleAction(SelectedAction(ListenerState), plan)
                 ELSE LET n == Len(MenuOptions(ListenerState)) IN
                      /\ plan = EmptyPlan
                      /\ menuSelection' = JsRem(menuSelection - 1 + n, n)
                      /\ FlushEffects
                      /\ UNCHANGED <<gameState, pendingState, debugPhase, renderStyle,
                                     emptyModeRef, simVars, clockVars, frameVars>>

\* onKeyUp for a lane or jump key
OnKeyUp(key) ==
    /\ FlagsWith(key, FALSE)
    /\ NothingHandled
    /\ UNCHANGED requests

\* A key goes down
KeyPress(key, plan) ==
    /\ key \notin heldKeys
    /\ heldKeys' = heldKeys \cup {key}
    /\ repeatKey' = key
    /\ OnKeyDown(key, FALSE, plan, [requests EXCEPT ![key] = 0])

\* The key pressed last is still down, no key was released since, and the
\* keyboard repeats it
KeyRepeat(plan) ==
    /\ repeatKey # NoKey
    /\ UNCHANGED <<heldKeys, repeatKey>>
    /\ OnKeyDown(repeatKey, TRUE, plan, requests)

\* A key goes up
KeyRelease(key) ==
    /\ key \in heldKeys
    /\ heldKeys' = heldKeys \ {key}
    /\ repeatKey' = NoKey
    /\ OnKeyUp(key)

\* handleBtnTouchStart('left' | 'right')
TouchLane(dir) ==
    /\ IF gameState = "PLAYING" THEN MoveLane(dir)
       ELSE /\ FlushEffects
            /\ UNCHANGED <<appVars, emptyModeRef, simVars, clockVars, frameVars>>
    /\ UNCHANGED keyVars

\* handleBtnTouchStart('jump')
TouchJump(plan) ==
    /\ IF gameState = "PLAYING" THEN plan = EmptyPlan /\ DoJump
       ELSE HandleAction(SelectedAction(gameState), plan)
    /\ UNCHANGED keyVars

\* The menu buttons, rendered while gameState is not PLAYING: onClick of option i
ClickOption(i, plan) ==
    /\ gameState # "PLAYING"
    /\ i \in 1..Len(MenuOptions(gameState))
    /\ HandleAction(MenuOptions(gameState)[i], plan)
    /\ UNCHANGED keyVars

\* onMouseEnter of option i
HoverOption(i) ==
    /\ gameState # "PLAYING"
    /\ i \in 1..Len(MenuOptions(gameState))
    /\ menuSelection' = i - 1
    /\ FlushEffects
    /\ UNCHANGED <<gameState, pendingState, debugPhase, renderStyle, emptyModeRef, keyVars,
                   simVars, clockVars, frameVars>>

\* A level-select button: setDebugPhase(p), and GameCanvas' effect on debugPhase
SetDebugPhase(p, plan) ==
    /\ p # debugPhase
    /\ debugPhase' = p
    /\ FlushEffects
    /\ IF p # phaseRef
       THEN /\ ResetGame(FALSE, p, levelRef, plan)
            /\ UNCHANGED <<delta, events, heard, hud>>
       ELSE /\ plan = EmptyPlan
            /\ UNCHANGED <<simVars, frameVars>>
    /\ UNCHANGED <<gameState, pendingState, menuSelection, renderStyle, emptyModeRef, keyVars,
                   clockVars>>

\* A style button that only changes the style
SetRenderStyleVisualOnly(s, plan) ==
    /\ s # renderStyle
    /\ plan = EmptyPlan
    /\ renderStyle' = s
    /\ FlushEffects
    /\ UNCHANGED <<gameState, pendingState, menuSelection, debugPhase, emptyModeRef, keyVars,
                   simVars, clockVars, frameVars>>

\* The style buttons: setRenderStyle(s), and GameCanvas' effect on renderStyle
SetRenderStyle(s, plan) ==
    /\ s # renderStyle
    /\ renderStyle' = s
    /\ FlushEffects
    /\ ResetGame(FALSE, phaseRef, levelRef, plan)
    /\ UNCHANGED <<gameState, pendingState, menuSelection, debugPhase, emptyModeRef, keyVars,
                   clockVars, delta, events, heard, hud>>

\* The empty-mode checkbox: setEmptyMode(b), and GameCanvas' effect on debugEmptyMode
SetEmptyMode(b) ==
    /\ b # emptyModeRef
    /\ emptyModeRef' = b
    /\ obstaclesRef' = IF b THEN <<>> ELSE obstaclesRef
    /\ FlushEffects
    /\ UNCHANGED <<appVars, keyVars, sessionVars, playerVars, speedVars, segmentsRef,
                   clockVars, frameVars>>

----------------------------------------------------------------------------
(* The state after mount: App's useState initial values, GameCanvas' refs  *)
(* and the world built by the mount-time run of the renderStyle effect     *)
(* (resetGame(false)).                                                     *)

InitWith(plans) ==
    /\ gameState = "MENU"
    /\ pendingState = NoRequest
    /\ menuSelection = 0
    /\ debugPhase = NoPhase
    /\ renderStyle = "GRID"
    /\ isMusicPlaying = FALSE
    /\ wasPlayingRef = FALSE
    /\ isPlaying = FALSE
    /\ isJumpKeyDown = FALSE
    /\ isLeftKeyDown = FALSE
    /\ isRightKeyDown = FALSE
    /\ heldKeys = {}
    /\ repeatKey = NoKey
    /\ requests = [k \in Keys |-> 0]
    /\ gameStateRef = "MENU"
    /\ emptyModeRef = FALSE
    /\ scoreRef = 0
    /\ timeRef = PHASE_DURATION
    /\ phaseRef = "ROUND"
    /\ levelRef = 1
    /\ healthRef = MAX_HEALTH
    /\ targetLane = 0
    /\ currentLane = 0
    /\ jumpHeight = 0
    /\ playerVelY = 0
    /\ isJumping = FALSE
    /\ jumpSounds = 0
    /\ speedMultRef = FULL_MULT
    /\ speedTimerRef = 0
    /\ frameLag = 0
    /\ lastTimeNaN = FALSE
    /\ \E plan \in plans : \E w \in {FreshWorld(plan, FALSE)} :
          /\ segmentsRef = w.segs
          /\ obstaclesRef = w.obs
    /\ delta = 0
    /\ events = <<>>
    /\ heard = <<>>
    /\ hud = NoHud
    /\ frames = 0

----------------------------------------------------------------------------
(* Specification Spec: the session state machine and collision            *)
(* resolution over the first frames of a game.  Obstacles are drawn for    *)
(* the three segments just ahead of the player, in the rows that reach the *)
(* hit band within MaxFrames frames.                                       *)

\* PLAYING frames explored after a new game
MaxFrames == 6
\* Longest time the loop stays paused
MaxLag == 250

Draw(lane, r, tileRow) == [lane |-> lane, r |-> r, tileRow |-> tileRow]

\* Frame gaps: a full frame, and one the clamp shortens
Gaps == {100, 250}

\* Segment 11 starts at z = 0, segment 12 at z = -8, segment 13 at z = -16.
\* Row 0 of segment 11 and row 3 of segment 12 are in the hit band after the
\* first frame, row 3 of segment 13 after the sixth.
SpecPlans ==
    { EmptyPlan,
      11 :> <<Draw(0, 60, 0)>>,
      11 :> <<Draw(0, 99, 0)>>,
      (11 :> <<Draw(0, 60, 0)>>) @@ (12 :> <<Draw(0, 99, 3)>>),
      (11 :> <<Draw(0, 60, 0), Draw(0, 10, 0)>>)
         @@ (12 :> <<Draw(0, 60, 3), Draw(0, 30, 3)>>)
         @@ (13 :> <<Draw(0, 70, 3), Draw(0, 50, 3)>>) }

Init == InitWith(SpecPlans)

Frame ==
    \E gap \in Gaps :
       /\ gameStateRef = "PLAYING" => frames < MaxFrames
       /\ gameStateRef = "PAUSED" => frameLag + gap <= MaxLag
       /\ Animate(gap, FALSE, <<>>)

Confirm == \E plan \in SpecPlans : KeyConfirm(plan)
Click == \E i \in 1..2 : \E plan \in SpecPlans : ClickOption(i, plan)
Hover == \E i \in 1..2 : HoverOption(i)
MenuNav == \E dir \in {-1, 1} : KeyMenuNav(dir)
TouchConfirm == \E plan \in SpecPlans : TouchJump(plan)

Next ==
    \/ Frame
    \/ Render
    \/ SyncEffects
    \/ KeyEscape
    \/ Confirm
    \/ Click
    \/ Hover
    \/ MenuNav
    \/ TouchConfirm

Spec == Init /\ [][Next]_vars

----------------------------------------------------------------------------
(* Properties checked under Spec.                                          *)

\* C2: the resolution effect of an obstacle instance (health, score or speed
\* change with its onEvent call) is applied at most once, whatever frames,
\* jumps and pauses follow.
C2_ResolvedAtMostOnce ==
    \A k \in 1..Len(obstaclesRef) : obstaclesRef[k].hits <= 1

\* A resolved instance was in front of a later PLAYING frame, which applied nothing
C2_Witness ==
    /\ \E k \in 1..Len(obstaclesRef) : obstaclesRef[k].hits = 1
    /\ frames >= 2
    /\ hud # NoHud
    /\ events = <<>>

\* C3: in every reachable state 0 <= health <= 100, also when several
\* obstacles resolve against the player in one frame.
C3_HealthInRange == healthRef >= 0 /\ healthRef <= MAX_HEALTH

\* C4: once a damage resolution has brought health to 0 or below and
\* GAME_OVER was requested, the session state changes next to GAME_OVER only:
\* no later frame and no input handled before the render replaces the outcome.
C4_GameOverNotRenegotiated ==
    [][pendingState = "GAME_OVER" => gameState' \in {gameState, "GAME_OVER"}]_vars

\* C7: a frame taken while the state is PAUSED changes no simulation variable
\* (lanes, jump, score, time, health, speed multiplier and timer, segments,
\* obstacles) and calls neither onUpdate nor onEvent.
C7_PausedFrameIsIdle ==
    [][gameState = "PAUSED" /\ Frame =>
          UNCHANGED simVars /\ hud' = NoHud /\ events' = <<>>]_vars

\* A frame ran while paused, in the middle of a jump and of a scored game
C7_Witness ==
    /\ gameState = "PAUSED"
    /\ frameLag > 0
    /\ hud = NoHud
    /\ isJumping
    /\ scoreRef > 0
    /\ obstaclesRef # <<>>

\* The values startNewGame establishes
NewGameValues ==
    /\ scoreRef = 0
    /\ levelRef = 1
    /\ healthRef = MAX_HEALTH
    /\ phaseRef = "ROUND"
    /\ timeRef = PHASE_DURATION
    /\ targetLane = 0
    /\ ~isJumping
    /\ jumpHeight = 0
    /\ playerVelY = 0
    /\ speedMultRef = FULL_MULT

\* C10: after startNewGame (the START and RETRY options, which lead from MENU
\* and GAME_OVER to PLAYING), whatever the values before: score 0, level 1,
\* health 100, phase ROUND (the tube), 60 s remaining, target lane 0, the
\* player grounded, speed multiplier 1.0.
C10_StartNewGameResets ==
    [][(gameState \in {"MENU", "GAME_OVER"} /\ gameState' = "PLAYING")
          => (NewGameValues)']_vars

\* A new game started over a lost one: the HUD still shows the old health
C10_Witness ==
    /\ gameState = "PLAYING"
    /\ frames = 0
    /\ NewGameValues
    /\ hud # NoHud
    /\ hud.health <= 0
    /\ hud.score > 0

----------------------------------------------------------------------------
(* Specification SpecLevel: whole levels.  Frames are full ones (the first  *)
(* after a reset may be short), so that a level takes 600 of them; the      *)
(* player stays in lane 0 and every menu input is possible.                 *)

\* PLAYING frames explored after a new game: one level and the start of the next
LevelFrames == 603
\* Longest time the loop stays paused
LevelLag == 100

\* Six hits by the sixth frame: health 20 after the first, -20 after the sixth
SixHits ==
    (11 :> <<Draw(0, 60, 0), Draw(0, 10, 0)>>)
       @@ (12 :> <<Draw(0, 60, 3), Draw(0, 30, 3)>>)
       @@ (13 :> <<Draw(0, 70, 3), Draw(0, 50, 3)>>)
LevelPlans == {EmptyPlan, SixHits}

\* The segment recycled on frame 463 (13.8 s left) may get a WALL in lane 0,
\* row 0: it is in the hit band on frame 601, the frame after the level ends
LateDrawTime == PHASE_DURATION - 462 * MAX_DELTA
LateDraws == { <<Draw(0, 60, 0)>> }

LevelFrame ==
    \E draw \in {<<>>} \cup LateDraws :
       /\ gameStateRef = "PLAYING" => frames < LevelFrames
       /\ gameStateRef = "PAUSED" => frameLag + MAX_DELTA <= LevelLag
       /\ draw # <<>> => timeRef = LateDrawTime
       /\ Animate(MAX_DELTA, FALSE, draw)

LevelConfirm == \E plan \in LevelPlans : KeyConfirm(plan)
LevelClick == \E i \in 1..2 : \E plan \in LevelPlans : ClickOption(i, plan)

NextLevelSpec ==
    \/ LevelFrame
    \/ Render
    \/ SyncEffects
    \/ KeyEscape
    \/ LevelConfirm
    \/ LevelClick
    \/ MenuNav

SpecLevel == InitWith({EmptyPlan}) /\ [][NextLevelSpec]_vars

----------------------------------------------------------------------------
(* Properties checked under SpecLevel.                                     *)

\* The transitions of the session state the specification lists
ListedTransitions ==
    { <<"MENU", "PLAYING">>, <<"PLAYING", "PAUSED">>, <<"PAUSED", "PLAYING">>,
      <<"PLAYING", "GAME_OVER">>, <<"PLAYING", "LEVEL_COMPLETE">>,
      <<"GAME_OVER", "MENU">>, <<"LEVEL_COMPLETE", "MENU">>,
      <<"LEVEL_COMPLETE", "PLAYING">> }

\* The transitions the menus add: RETRY on the GAME_OVER menu, EXIT on the
\* PAUSED menu
MenuTransitions == { <<"GAME_OVER", "PLAYING">>, <<"PAUSED", "MENU">> }

\* The transitions open between the render of GAME_OVER or LEVEL_COMPLETE and
\* the effects of that render, while the loop and the key listeners still act
\* for PLAYING
StaleTransitions ==
    { <<"GAME_OVER", "LEVEL_COMPLETE">>, <<"LEVEL_COMPLETE", "GAME_OVER">>,
      <<"GAME_OVER", "PAUSED">>, <<"LEVEL_COMPLETE", "PAUSED">> }

----------------------------------------------------------------------------
(* Specification SpecRun: one game played to its end with no input after    *)
(* START.  The first frame may be short, which shifts every later frame by  *)
(* half a step.                                                             *)

\* PLAYING frames explored after the new game
RunFrames == 603

\* Four hits on the first two frames: health 20
FourHits ==
    (11 :> <<Draw(0, 60, 0), Draw(0, 10, 0)>>) @@ (12 :> <<Draw(0, 60, 3), Draw(0, 30, 3)>>)
RunPlans == {EmptyPlan, FourHits}

\* After a short first frame, the segment recycled on frame 469 (13.25 s left)
\* may get a WALL in lane 0, row 3: it enters the hit band on frame 601, the
\* frame that takes the countdown from 0.05 s to -0.05 s
RunDrawTime == PHASE_DURATION - 50 - 467 * MAX_DELTA
RunDraws == { <<Draw(0, 60, 3)>> }

RunFrame ==
    \E gap \in {50, MAX_DELTA} : \E draw \in {<<>>} \cup RunDraws :
       /\ gap = 50 => gameStateRef = "PLAYING" /\ timeRef = PHASE_DURATION
       /\ gameStateRef = "PLAYING" => frames < RunFrames
       /\ draw # <<>> => timeRef = RunDrawTime
       /\ Animate(gap, FALSE, draw)

RunStart == \E plan \in RunPlans : gameState = "MENU" /\ KeyConfirm(plan)

NextRun ==
    \/ RunFrame
    \/ RunStart
    \/ Render
    \/ SyncEffects

SpecRun == InitWith({EmptyPlan}) /\ [][NextRun]_vars

C16_SegmentWindowConstant ==
    /\ [](Len(segmentsRef) = SEGMENT_COUNT)
    /\ [][RunFrame /\ gameStateRef = "PLAYING" =>
             LET dist == segmentsRef'[SEGMENT_COUNT] - segmentsRef[SEGMENT_COUNT]
                 far == segmentsRef[SEGMENT_COUNT] + (scoreRef' - scoreRef)
             IN IF segmentsRef[1] + (scoreRef' - scoreRef) > RETIRE_Z
                THEN /\ \A k \in 1..(SEGMENT_COUNT - 1) :
                           segmentsRef'[k] = segmentsRef[k + 1] + (scoreRef' - scoreRef)
                     /\ segmentsRef'[SEGMENT_COUNT] = far - SEGMENT_LENGTH
                ELSE /\ dist = scoreRef' - scoreRef
                     /\ \A k \in 1..SEGMENT_COUNT : segmentsRef'[k] = segmentsRef[k] + dist]_vars

\* More than a hundred segments were recycled, and the obstacle spawned with
\* one of them has reached the player
C16_Witness ==
    /\ frames > 600
    /\ Len(segmentsRef) = SEGMENT_COUNT
    /\ segmentsRef[1] > 0
    /\ Len(obstaclesRef) = 1
    /\ obstaclesRef[1].hits = 1

----------------------------------------------------------------------------
(* Specification SpecScenario: a new game and frames one second apart, with *)
(* no input.                                                                *)

\* PLAYING frames explored after the new game
ScenarioFrames == 602

\* An obstacle beside the player's lane, or one in it
ScenarioPlans == { EmptyPlan, 11 :> <<Draw(1, 60, 0)>>, 11 :> <<Draw(0, 60, 0)>> }

ScenarioFrame ==
    /\ gameStateRef = "PLAYING" => frames < ScenarioFrames
    /\ Animate(10 * MAX_DELTA, FALSE, <<>>)

ScenarioStart == \E plan \in ScenarioPlans : gameState = "MENU" /\ KeyConfirm(plan)

NextScenario ==
    \/ ScenarioFrame
    \/ ScenarioStart
    \/ Render
    \/ SyncEffects

SpecScenario == InitWith({EmptyPlan}) /\ [][NextScenario]_vars

\* No obstacle, resolved or not, is in the lane the player occupies
NoObstacleInLane ==
    \A k \in 1..Len(obstaclesRef) :
        obstaclesRef[k].lane # PlayerLane(phaseRef, currentLane)

\* LEVEL_COMPLETE is the state, or the state asked for
Completed == gameState = "LEVEL_COMPLETE" \/ pendingState = "LEVEL_COMPLETE"

\* C6 as stated: after startNewGame, sixty frames one second apart, with no
\* input and no obstacle in the player's lane, end in LEVEL_COMPLETE with
\* score > 0 and health 100.
C6_SixtyFramesComplete ==
    (frames = 60 /\ NoObstacleInLane)
        => (Completed /\ scoreRef > 0 /\ healthRef = MAX_HEALTH)

\* C6, amended: a frame one second after the last advances the game by the
\* clamped 0.1 s, so after sixty of them the game is still PLAYING with 54 s
\* left; after six hundred, with no input and no obstacle in the player's
\* lane, LEVEL_COMPLETE is reached with score > 0 and health 100.
C6_SixHundredFramesComplete ==
    /\ (frames = 60 /\ gameStateRef = "PLAYING")
          => (timeRef = PHASE_DURATION - 60 * MAX_DELTA /\ ~Completed)
    /\ (frames >= 600 /\ NoObstacleInLane)
          => (Completed /\ scoreRef > 0 /\ healthRef = MAX_HEALTH)

\* Six hundred frames ran past an obstacle in the lane beside the player's
C6_Witness ==
    /\ frames >= 600
    /\ gameState = "LEVEL_COMPLETE"
    /\ NoObstacleInLane
    /\ obstaclesRef # <<>>
    /\ scoreRef > 0
    /\ healthRef = MAX_HEALTH

----------------------------------------------------------------------------
(* Specification SpecClock: animate(time) called with any timestamps: short *)
(* and long gaps, a timestamp before the last one, NaN.                     *)

\* PLAYING frames explored after a new game
ClockFrames == 3
\* Longest time, forwards or backwards, the clock moves while the loop is paused
ClockLag == 300

ClockGaps == {-100, 40, 100, 250}
ClockPlans == { EmptyPlan, 11 :> <<Draw(0, 60, 0)>> }

ClockFrame ==
    \E gap \in ClockGaps : \E nan \in BOOLEAN :
       /\ nan => gap = MAX_DELTA
       /\ gameStateRef = "PLAYING" => frames < ClockFrames
       /\ gameStateRef = "PAUSED" =>
             (frameLag + gap <= ClockLag /\ frameLag + gap >= 0 - ClockLag)
       /\ Animate(gap, nan, <<>>)

ClockConfirm == \E plan \in ClockPlans : KeyConfirm(plan)

NextClock ==
    \/ ClockFrame
    \/ KeyEscape
    \/ ClockConfirm

SpecClock == InitWith(ClockPlans) /\ [][NextClock]_vars

\* C8: the time step of a frame never exceeds 0.1 s, whatever the gap since
\* the last processed frame (a pause included), so the countdown loses at
\* most 0.1 s per frame; a NaN delta (a NaN timestamp on this frame or on the
\* last one) is replaced by 0.1 s.
C8_StepAtMostTenth ==
    [][ClockFrame =>
          /\ delta' <= MAX_DELTA
          /\ timeRef - timeRef' <= MAX_DELTA
          /\ (gameStateRef # "PAUSED" /\ (lastTimeNaN \/ lastTimeNaN'))
                => delta' = MAX_DELTA]_vars

\* A PLAYING frame with a NaN timestamp advanced the game by 0.1 s
C8_Witness ==
    /\ lastTimeNaN
    /\ delta = MAX_DELTA
    /\ hud # NoHud
    /\ timeRef = PHASE_DURATION - MAX_DELTA

----------------------------------------------------------------------------
(* Specification SpecTour: a game played through four levels and into the  *)
(* fifth, with full frames and no input but START and NEXT LEVEL.           *)

\* PLAYING frames explored after the new game: four levels and a few frames
TourFrames == 2405
\* How far below zero the countdown runs before React renders LEVEL_COMPLETE
TourOverrun == 200

\* A WALL in lane 0 hit on the first frame of a level
OneHit == 11 :> <<Draw(0, 60, 0)>>
TourPlans == {EmptyPlan, OneHit}

TourFrame ==
    /\ gameStateRef = "PLAYING" => (frames < TourFrames /\ timeRef > 0 - TourOverrun)
    /\ Animate(MAX_DELTA, FALSE, <<>>)

TourStart == \E plan \in TourPlans : gameState = "MENU" /\ KeyConfirm(plan)

TourNext == \E plan \in TourPlans : ListenerState = "LEVEL_COMPLETE" /\ KeyConfirm(plan)

NextTour ==
    \/ TourFrame
    \/ TourStart
    \/ TourNext
    \/ Render
    \/ SyncEffects

SpecTour == InitWith({EmptyPlan}) /\ [][NextTour]_vars

\* The phase of a level in a game that only startNextLevel moved on:
\* TUBE, SQUARE_GLOWING, SQUARE_CLEAN, FLAT and round again
PhaseOfLevel(level) ==
    CASE level % 4 = 1 -> "ROUND"
      [] level % 4 = 2 -> "TUNNEL_GLOWING"
      [] level % 4 = 3 -> "TUNNEL_CLEAN"
      [] OTHER -> "FLAT"

\* C11: startNextLevel leaves score and health unchanged, increments level by
\* exactly 1, resets timeRemaining to 60 and advances the phase along
\* TUBE -> SQUARE_GLOWING -> SQUARE_CLEAN -> FLAT -> TUBE; four calls in a row
\* bring the phase back to where it started.
C11_NextLevelPartialReset ==
    [][TourNext =>
          /\ scoreRef' = scoreRef
          /\ healthRef' = healthRef
          /\ levelRef' = levelRef + 1
          /\ timeRef' = PHASE_DURATION
          /\ phaseRef' = PhaseOfLevel(levelRef + 1)
          /\ phaseRef = PhaseOfLevel(levelRef)
          /\ (levelRef' = 5 => phaseRef' = "ROUND")]_vars

\* The fifth level began, back in the tube, with the score and the health of
\* four levels played
C11_Witness ==
    /\ levelRef = 5
    /\ phaseRef = "ROUND"
    /\ gameState = "PLAYING"
    /\ timeRef = PHASE_DURATION
    /\ scoreRef > 0
    /\ healthRef > 0
    /\ healthRef < MAX_HEALTH

----------------------------------------------------------------------------
(* Specification SpecLane: lane requests in every topology.  The topology   *)
(* is changed with the level-select buttons, before the first frame of a    *)
(* game or after the last one explored; lane keys are pressed before the    *)
(* first frame after a reset or once the lane easing has come to rest;      *)
(* an obstacle may stand in an edge lane or in lane 0, in the hit band on   *)
(* the first or on the sixth frame after the reset.                         *)

\* PLAYING frames explored after the new game
LaneFrames == 7

\* The lanes obstacles are drawn in: the ends of the range and lane 0
EdgeLanes(phase) == IF phase = "FLAT" THEN {-3, 0, 3} ELSE {0, LANE_COUNT_ROUND - 1}

LanePlans(phase) ==
    {EmptyPlan}
       \cup { 11 :> <<Draw(l, 60, 0)>> : l \in EdgeLanes(phase) }
       \cup { 13 :> <<Draw(l, 60, 3)>> : l \in EdgeLanes(phase) }

\* currentLane has come to rest on targetLane (on one of its images, in a ring)
LaneAtRest ==
    IF phaseRef = "FLAT" THEN currentLane = targetLane * 1000
    ELSE (currentLane - targetLane * 1000) % (LANE_COUNT_ROUND * 1000) = 0

LaneStart == \E plan \in LanePlans("ROUND") : gameState = "MENU" /\ KeyConfirm(plan)

LanePhase ==
    \E p \in GamePhases : \E plan \in LanePlans(p) :
       /\ frames = 0 \/ frames >= LaneFrames
       /\ SetDebugPhase(p, plan)

LaneKey ==
    \E dir \in {-1, 1} :
       /\ timeRef = PHASE_DURATION \/ LaneAtRest
       /\ KeyLane(dir)

LaneFrame ==
    /\ gameStateRef = "PLAYING" => frames < LaneFrames
    /\ Animate(MAX_DELTA, FALSE, <<>>)

NextLane ==
    \/ LaneStart
    \/ LanePhase
    \/ LaneKey
    \/ LaneFrame

SpecLane == InitWith({EmptyPlan}) /\ [][NextLane]_vars

\* C12: in each cyclic topology, from every lane L in 0..11, a lane request
\* moves targetLane to L + dir modulo 12, so that +1 followed by -1, and -1
\* followed by +1, end on L.
C12_CyclicRoundTrip ==
    [][\A dir \in {-1, 1} :
          (phaseRef # "FLAT" /\ KeyLane(dir)) =>
              /\ targetLane \in 0..11
              /\ targetLane' = (targetLane + dir + 12) % 12
              /\ ChangeLaneTarget(phaseRef, targetLane', 0 - dir) = targetLane]_vars

\* Lane 11 of the clean square tunnel was reached from lane 0 across the seam
C12_Witness ==
    /\ phaseRef = "TUNNEL_CLEAN"
    /\ gameState = "PLAYING"
    /\ targetLane = 11
    /\ currentLane < 0

\* The lane a request for dir ends on in the bounded topology
ClampedLane(lane, dir) ==
    IF lane + dir > 3 THEN 3 ELSE IF lane + dir < -3 THEN -3 ELSE lane + dir

\* C13: in FLAT, a request for +1 from lane +3 leaves +3 and a request for -1
\* from -3 leaves -3: every request ends on the clamped lane, and targetLane
\* stays in -3..+3.
C13_FlatClamp ==
    /\ [](phaseRef = "FLAT" => targetLane \in -3..3)
    /\ [][\A dir \in {-1, 1} :
             (phaseRef = "FLAT" /\ ENABLED KeyLane(dir)) =>
                 /\ ChangeLaneTarget(phaseRef, targetLane, dir) = ClampedLane(targetLane, dir)
                 /\ (KeyLane(dir) => targetLane' = ClampedLane(targetLane, dir))]_vars

\* Lane +3 of FLAT, reached by lane requests, with the player on the way
C13_Witness ==
    /\ phaseRef = "FLAT"
    /\ gameState = "PLAYING"
    /\ targetLane = 3
    /\ currentLane > 0

----------------------------------------------------------------------------
(* Specification SpecTopology: every way the topology changes.  A game is   *)
(* started, a level-select button may be clicked before its first frame,    *)
(* the level is played with full frames, and at its end, while the loop     *)
(* still runs, a lane next to the player's is requested and the next level  *)
(* is started or a level-select button is clicked.                          *)

\* PLAYING frames explored after the new game: one level and a few frames
TopoFrames == 603

TopoStart == \E plan \in LanePlans("ROUND") : gameState = "MENU" /\ KeyConfirm(plan)

TopoPhase ==
    \E p \in GamePhases : \E plan \in LanePlans(p) :
       /\ frames = 0 \/ timeRef <= 0
       /\ SetDebugPhase(p, plan)

TopoKey == \E dir \in {-1, 1} : timeRef <= 0 /\ LaneAtRest /\ KeyLane(dir)

TopoFrame ==
    /\ gameStateRef = "PLAYING" => (frames < TopoFrames /\ timeRef > 0 - TourOverrun)
    /\ Animate(MAX_DELTA, FALSE, <<>>)

TopoNext ==
    \E plan \in LanePlans(NextPhase(phaseRef)) :
       ListenerState = "LEVEL_COMPLETE" /\ KeyConfirm(plan)

NextTopology ==
    \/ TopoStart
    \/ TopoPhase
    \/ TopoKey
    \/ TopoFrame
    \/ TopoNext
    \/ Render
    \/ SyncEffects

SpecTopology == InitWith({EmptyPlan}) /\ [][NextTopology]_vars

\* C14: in every reachable state targetLane and the lane of every live
\* obstacle are in -3..+3 when the phase is FLAT and in 0..11 otherwise, also
\* right after startNextLevel, a level-select click and startNewGame.
C14_LanesInRange ==
    LET range == IF phaseRef = "FLAT" THEN -3..3 ELSE 0..11 IN
    /\ targetLane \in range
    /\ \A k \in 1..Len(obstaclesRef) :
          (~obstaclesRef[k].exploded /\ obstaclesRef[k].attached)
              => obstaclesRef[k].lane \in range

\* A frame of the second level ran in FLAT, with an obstacle in lane -3
C14_Witness ==
    /\ phaseRef = "FLAT"
    /\ levelRef = 2
    /\ timeRef < PHASE_DURATION
    /\ hud # NoHud
    /\ \E k \in 1..Len(obstaclesRef) :
          obstaclesRef[k].lane = -3 /\ ~obstaclesRef[k].exploded

----------------------------------------------------------------------------
(* Specification SpecSlow: a game with one or two CLOCK_BLUE pickups in     *)
(* lane 0, played with full frames and pauses.  The first pickup is taken   *)
(* on frame 1; the second, one segment further, on frame 11, while the      *)
(* world moves at half speed.                                               *)

\* PLAYING frames explored after the new game
SlowFrames == 62
\* Longest time the loop stays paused
SlowLag == 200

OneClock == 11 :> <<Draw(0, 88, 0)>>
TwoClocks == (11 :> <<Draw(0, 88, 0)>>) @@ (12 :> <<Draw(0, 88, 0)>>)
SlowPlans == {EmptyPlan, OneClock, TwoClocks}

SlowStart == \E plan \in SlowPlans : gameState = "MENU" /\ KeyConfirm(plan)

SlowResume == ListenerState = "PAUSED" /\ KeyConfirm(EmptyPlan)

SlowFrame ==
    /\ gameStateRef = "PLAYING" => frames < SlowFrames
    /\ gameStateRef = "PAUSED" => frameLag + MAX_DELTA <= SlowLag
    /\ Animate(MAX_DELTA, FALSE, <<>>)

NextSlow ==
    \/ SlowStart
    \/ SlowFrame
    \/ KeyEscape
    \/ SlowResume

SpecSlow == InitWith({EmptyPlan}) /\ [][NextSlow]_vars

\* Obstacle k is a CLOCK_BLUE this step resolves
ClockResolves(k) ==
    /\ k <= Len(obstaclesRef)
    /\ Len(obstaclesRef') = Len(obstaclesRef)
    /\ obstaclesRef[k].type = "CLOCK_BLUE"
    /\ obstaclesRef[k].hits = 0
    /\ obstaclesRef'[k].hits = 1

----------------------------------------------------------------------------
(* Specification SpecHit: the first frames of a game in the tube, with an   *)
(* obstacle of any type in lane 0 or lane 1 (or two or three obstacles),    *)
(* and the player staying, changing lane or jumping.                        *)

\* PLAYING frames explored after the new game
HitFrames == 3

\* One type draw for each obstacle type spawnObstacle produces
TypeDraws == {10, 30, 50, 60, 70, 80, 88, 93, 99}

\* Row 0 of segment 11 is in the hit band on frames 1 and 2, row 2 of segment
\* 12 on frame 3; a BULLET from row 2 of segment 12 is in it on frame 1
HitPlans ==
    {EmptyPlan}
       \cup { 11 :> <<Draw(l, r, 0)>> : l \in {0, 1}, r \in TypeDraws }
       \cup { 12 :> <<Draw(0, r, 2)>> : r \in {80, 99} }
       \cup { (11 :> <<Draw(0, 60, 0)>>) @@ (12 :> <<Draw(0, r, 2)>>) : r \in {93, 99} }
       \cup { (11 :> <<Draw(0, 60, 0), Draw(0, 10, 0)>>) @@ (12 :> <<Draw(0, 99, 2)>>),
              11 :> <<Draw(0, 60, 0), Draw(0, 99, 0)>>,
              11 :> <<Draw(0, 88, 0), Draw(0, 93, 0)>> }

HitStart == \E plan \in HitPlans : gameState = "MENU" /\ KeyConfirm(plan)

HitKey ==
    \E dir \in {-1, 1} :
       /\ timeRef = PHASE_DURATION \/ LaneAtRest
       /\ KeyLane(dir)

HitFrame ==
    /\ gameStateRef = "PLAYING" => frames < HitFrames
    /\ Animate(MAX_DELTA, FALSE, <<>>)

NextHit ==
    \/ HitStart
    \/ HitKey
    \/ KeyJump
    \/ HitFrame

SpecHit == InitWith({EmptyPlan}) /\ [][NextHit]_vars

\* The obstacle types that do damage
DamageTypes == {"SIMPLE", "WALL", "EXTRUDING", "BULLET", "DOOR", "BALL"}

\* Where obstacle k stands when this step's frame checks it: its segment has
\* moved, and a BULLET has flown on
CheckedDistZ(k) ==
    LET o == obstaclesRef[k] IN
    segmentsRef'[o.seg] + o.z
       + (IF o.type = "BULLET" THEN SPEED_BASE * delta' * speedMultRef ELSE 0)
       - PLAYER_Z

\* The lane the player occupies when this step's frame checks the obstacles
OccupiedLane == (((currentLane' + 500) \div 1000) + 12) % 12

\* Obstacle k is unresolved, in the collision band and in the player's lane
\* when this step's frame checks it
InReach(k) ==
    /\ ~obstaclesRef[k].exploded
    /\ obstaclesRef[k].attached
    /\ CheckedDistZ(k) < HIT_BAND
    /\ CheckedDistZ(k) > 0 - HIT_BAND
    /\ obstaclesRef[k].lane = OccupiedLane

\* Obstacle k is resolved and removed by this step
ResolvedNow(k) ==
    /\ obstaclesRef[k].hits = 0
    /\ obstaclesRef'[k].hits = 1
    /\ obstaclesRef'[k].exploded
    /\ ~obstaclesRef'[k].attached

DamageEvents(evs) == Len(SelectSeq(evs, LAMBDA e : e = "DAMAGE"))

\* C17: a PLAYING frame with the player on the ground resolves every
\* unresolved damage-type obstacle that is in the collision band and in the
\* player's lane: each one takes 20 off health, emits one DAMAGE event and is
\* removed (health 100 -> 80 for one WALL in lane 0 of the tube).
C17_GroundedHitDamages ==
    [][(HitFrame /\ gameStateRef = "PLAYING" /\ jumpHeight' = 0 /\ ~isJumping') =>
          LET reach == {k \in 1..Len(obstaclesRef) : InReach(k)}
              hurt == {k \in reach : obstaclesRef[k].type \in DamageTypes}
          IN /\ \A k \in hurt : ResolvedNow(k)
             /\ DamageEvents(events') = Cardinality(hurt)
             /\ (reach = hurt => healthRef' = healthRef - DAMAGE * Cardinality(hurt))]_vars

\* One WALL in lane 0 of the tube was hit on the ground: health 80, one DAMAGE
C17_Witness ==
    /\ phaseRef = "ROUND"
    /\ frames = 1
    /\ Len(obstaclesRef) = 1
    /\ obstaclesRef[1].type = "WALL"
    /\ obstaclesRef[1].lane = 0
    /\ obstaclesRef[1].exploded
    /\ ~obstaclesRef[1].attached
    /\ healthRef = MAX_HEALTH - DAMAGE
    /\ events = <<"DAMAGE">>
    /\ ~isJumping

----------------------------------------------------------------------------
(* The lane check, under SpecLane.                                          *)

\* C18: in every cyclic topology the player's rounded continuous lane is
\* wrapped into 0..11 before it is compared with an obstacle's lane, so a
\* grounded player whose continuous lane has come to rest on targetLane = L
\* is hit by an in-band obstacle in lane L, across the 11 <-> 0 seam too.
C18_SettledLaneIsHit ==
    [][(/\ LaneFrame
        /\ gameStateRef = "PLAYING"
        /\ phaseRef # "FLAT"
        /\ jumpHeight' = 0
        /\ (currentLane' - targetLane * 1000) % (LANE_COUNT_ROUND * 1000) = 0) =>
          \A k \in 1..Len(obstaclesRef) :
             (InReach(k) /\ obstaclesRef[k].lane = targetLane) => ResolvedNow(k)]_vars

----------------------------------------------------------------------------
(* Vertical clearance and the effects by type, under SpecHit.               *)

\* C19: a BALL in the player's lane inside the collision band resolves as
\* damage even when the player is above the clearance height; an obstacle of
\* any other type is avoided by a player above the clearance height and stays
\* unresolved in that frame.
C19_BallCannotBeJumped ==
    [][(HitFrame /\ gameStateRef = "PLAYING" /\ jumpHeight' > CLEAR_HEIGHT) =>
          \A k \in 1..Len(obstaclesRef) :
             InReach(k) =>
                IF obstaclesRef[k].type = "BALL"
                THEN ResolvedNow(k) /\ healthRef' < healthRef
                ELSE /\ obstaclesRef'[k].hits = 0
                     /\ ~obstaclesRef'[k].exploded
                     /\ obstaclesRef'[k].attached
                     /\ events' = <<>>]_vars

\* The obstacles this step resolves
ResolvedSet == {k \in 1..Len(obstaclesRef) : ResolvedNow(k)}

\* The distance the world moved in this step's frame
MovedBy == segmentsRef'[1] - segmentsRef[1]

\* C20: a hit applies exactly the effect of the obstacle's type and emits
\* exactly one event.  In a frame that resolves one obstacle: a HEART sets
\* health to min(100, health + 20) and emits COLLECT; a SPEED_BOOST adds 500
\* to the score, leaves health and emits BOOST; a CLOCK_BLUE sets the speed
\* multiplier to 0.5 and its timer to 5.0 s, leaves health and score and emits
\* COLLECT; any other type takes 20 off health and emits DAMAGE.  What the
\* type does not name is left as the frame without the hit leaves it.
C20_EffectByType ==
    [][(HitFrame /\ gameStateRef = "PLAYING" /\ Cardinality(ResolvedSet) = 1) =>
          LET o == obstaclesRef[CHOOSE k \in ResolvedSet : TRUE]
              noBonus == scoreRef' = scoreRef + MovedBy
              idle == SpeedTimerStep(speedTimerRef, speedMultRef, delta')
              noSlow == speedMultRef' = idle.mult /\ speedTimerRef' = idle.timer
          IN CASE o.type = "HEART" ->
                    /\ healthRef' = IF healthRef + 20 > 100 THEN 100 ELSE healthRef + 20
                    /\ events' = <<"COLLECT">>
                    /\ noBonus /\ noSlow
               [] o.type = "SPEED_BOOST" ->
                    /\ scoreRef' = scoreRef + MovedBy + 500000
                    /\ healthRef' = healthRef
                    /\ events' = <<"BOOST">>
                    /\ noSlow
               [] o.type = "CLOCK_BLUE" ->
                    /\ speedMultRef' = 1
                    /\ speedTimerRef' = 5000
                    /\ healthRef' = healthRef
                    /\ events' = <<"COLLECT">>
                    /\ noBonus
               [] OTHER ->
                    /\ healthRef' = healthRef - 20
                    /\ events' = <<"DAMAGE">>
                    /\ noBonus /\ noSlow]_vars

\* A HEART was collected at health 60, after two hits: health 80, one COLLECT
C20_Witness ==
    /\ frames = 3
    /\ Len(obstaclesRef) = 3
    /\ obstaclesRef[3].type = "HEART"
    /\ obstaclesRef[3].hits = 1
    /\ healthRef = 80
    /\ events = <<"COLLECT">>

----------------------------------------------------------------------------
(* The HUD callback, under SpecLevel.                                       *)

\* C21 as stated: onUpdate is called on every frame taken while the state is
\* neither PAUSED nor MENU (in PLAYING, GAME_OVER and LEVEL_COMPLETE) and on
\* no frame taken in PAUSED or MENU.
C21_HudUnlessPausedOrMenu ==
    [][LevelFrame => (hud' # NoHud <=> gameStateRef \notin {"PAUSED", "MENU"})]_vars

\* C21, amended: onUpdate is called on exactly the frames taken while the
\* loop's copy of the state is PLAYING; it is called on no frame taken in
\* PAUSED, MENU, GAME_OVER or LEVEL_COMPLETE.
C21_HudOnlyWhilePlaying ==
    [][LevelFrame => (hud' # NoHud <=> gameStateRef = "PLAYING")]_vars

\* A frame ran in LEVEL_COMPLETE, seen by the loop, and made no HUD call
C21_Witness ==
    /\ gameState = "LEVEL_COMPLETE"
    /\ gameStateRef = "LEVEL_COMPLETE"
    /\ timeRef <= 0
    /\ hud = NoHud

----------------------------------------------------------------------------
(* Specification SpecDebug: a game with the settings panel in use: the      *)
(* empty-mode checkbox, the level-select and the render-style buttons, the  *)
(* pause menu and its EXIT.                                                 *)

\* PLAYING frames explored after a new game
DebugFrames == 19

\* A WALL hit on the first frame and a SIMPLE further ahead, in lane 1
TwoAhead == (12 :> <<Draw(0, 60, 3)>>) @@ (14 :> <<Draw(1, 10, 1)>>)
DebugPlans == {EmptyPlan, TwoAhead}

\* The segment spawned by a recycling frame may get a WALL in lane 0
DebugDraws == { <<Draw(0, 60, 3)>> }

DebugFrame ==
    \E draw \in {<<>>} \cup DebugDraws :
       /\ gameStateRef = "PLAYING" => frames < DebugFrames
       /\ gameStateRef = "PAUSED" => frameLag = 0
       /\ Animate(MAX_DELTA, FALSE, draw)

DebugConfirm == \E plan \in DebugPlans : KeyConfirm(plan)

DebugNav == ListenerState = "PAUSED" /\ KeyMenuNav(1)

\* The settings are changed before a game, early in it or late in it
DebugMoment == frames \in {0, 2, DebugFrames}

DebugEmpty == \E b \in BOOLEAN : SetEmptyMode(b)

DebugStyle ==
    \E s \in RenderStyles : \E plan \in DebugPlans :
       DebugMoment /\ SetRenderStyle(s, plan)

DebugPhase ==
    \E p \in GamePhases : \E plan \in DebugPlans :
       DebugMoment /\ SetDebugPhase(p, plan)

NextDebug ==
    \/ DebugFrame
    \/ DebugConfirm
    \/ DebugNav
    \/ KeyEscape
    \/ DebugEmpty
    \/ DebugStyle
    \/ DebugPhase

SpecDebug == InitWith(DebugPlans) /\ [][NextDebug]_vars

\* C22: the empty-mode effect leaves no live obstacle, and while empty mode is
\* on the obstacle list is empty in every reachable state, whatever reset or
\* recycling spawned segments meanwhile; so no step that ends in empty mode
\* lowers health.
C22_EmptyModeHasNoObstacles ==
    /\ [](emptyModeRef => obstaclesRef = <<>>)
    /\ [][emptyModeRef' => healthRef' >= healthRef]_vars

\* Empty mode was switched on after a hit, and a segment has been recycled under it
C22_Witness ==
    /\ emptyModeRef
    /\ gameStateRef = "PLAYING"
    /\ healthRef < MAX_HEALTH
    /\ frames > 13
    /\ obstaclesRef = <<>>

----------------------------------------------------------------------------
(* Specification SpecPanel: the level-select and render-style buttons       *)
(* pressed during the first frames of a game, with the player moved,        *)
(* airborne, hurt and slowed.                                               *)

\* PLAYING frames explored after a new game
PanelFrames == 3

\* A WALL and a CLOCK hit on the first frame: health 80, half speed
HurtAndSlowed == 12 :> <<Draw(0, 60, 3), Draw(0, 88, 3)>>
PanelPlans == {EmptyPlan, HurtAndSlowed}

PanelStart == \E plan \in PanelPlans : gameState = "MENU" /\ KeyConfirm(plan)

PanelKey == \E dir \in {-1, 1} : targetLane = 0 /\ KeyLane(dir)

PanelFrame ==
    /\ gameStateRef = "PLAYING" => frames < PanelFrames
    /\ Animate(MAX_DELTA, FALSE, <<>>)

PanelStyle ==
    \E s \in RenderStyles : \E plan \in PanelPlans : SetRenderStyle(s, plan)

PanelPhase ==
    \E p \in GamePhases : \E plan \in PanelPlans : SetDebugPhase(p, plan)

NextPanel ==
    \/ PanelStart
    \/ PanelKey
    \/ KeyJump
    \/ PanelFrame
    \/ PanelStyle
    \/ PanelPhase

SpecPanel == InitWith(PanelPlans) /\ [][NextPanel]_vars

\* The values resetGame(false) leaves behind: a full countdown, the player at
\* lane 0 on the ground at normal speed, and a world of 40 new segments at
\* their starting positions whose obstacles are all untouched
PartialResetValues ==
    /\ timeRef = PHASE_DURATION
    /\ targetLane = 0
    /\ currentLane = 0
    /\ ~isJumping
    /\ playerVelY = 0
    /\ jumpHeight = 0
    /\ speedMultRef = FULL_MULT
    /\ Len(segmentsRef) = SEGMENT_COUNT
    /\ \A k \in 1..SEGMENT_COUNT :
          segmentsRef[k] = 0 - (FIRST_SEGMENT + k - 1) * SEGMENT_LENGTH
    /\ \A k \in 1..Len(obstaclesRef) :
          /\ obstaclesRef[k].hits = 0
          /\ ~obstaclesRef[k].exploded
          /\ obstaclesRef[k].attached
          /\ obstaclesRef[k].z \in {TileZ(row) : row \in 0..3}

\* C23: a change of render style does the reset that a level-select button
\* for another topology does: countdown 60 s, target and continuous lane 0,
\* jump state and speed multiplier cleared, every segment and obstacle
\* replaced, score, level and health kept (the style button keeps the
\* topology too); a level-select button for the current topology changes
\* nothing in the simulation.
C23_StyleChangeResets ==
    [][/\ (renderStyle' # renderStyle \/ (debugPhase' # debugPhase /\ debugPhase' # phaseRef))
          => /\ (PartialResetValues)'
             /\ UNCHANGED <<scoreRef, levelRef, healthRef>>
             /\ phaseRef' = IF renderStyle' # renderStyle THEN phaseRef ELSE debugPhase'
       /\ (debugPhase' # debugPhase /\ debugPhase' = phaseRef)
          => UNCHANGED <<sessionVars, playerVars, speedVars, worldVars>>]_vars

\* The style was changed in a game after a hit and a CLOCK: health and score
\* are kept, the speed is normal though the slow-down timer still runs
C23_Witness ==
    /\ renderStyle = "TILES"
    /\ gameStateRef = "PLAYING"
    /\ PartialResetValues
    /\ healthRef = MAX_HEALTH - DAMAGE
    /\ scoreRef > 0
    /\ speedTimerRef > 0

\* C24 as stated: START (startNewGame) and EXIT both clear every segment and
\* obstacle: right after START the world is the 40 new segments with their
\* untouched obstacles, and right after EXIT no obstacle spawned before it is
\* live.
C24_StartAndExitClearWorld ==
    [][/\ (gameState = "MENU" /\ gameState' = "PLAYING")
          => /\ Len(segmentsRef') = SEGMENT_COUNT
             /\ \A k \in 1..SEGMENT_COUNT :
                   segmentsRef'[k] = 0 - (FIRST_SEGMENT + k - 1) * SEGMENT_LENGTH
             /\ \A k \in 1..Len(obstaclesRef') :
                   /\ obstaclesRef'[k].hits = 0
                   /\ ~obstaclesRef'[k].exploded
                   /\ obstaclesRef'[k].attached
       /\ (gameState # "MENU" /\ gameState' = "MENU")
          => \A k \in 1..Len(obstaclesRef') :
                \A j \in 1..Len(obstaclesRef) : obstaclesRef'[k] # obstaclesRef[j]]_vars

\* The half of C24 about START alone
C24_StartClearsWorld ==
    [][(gameState = "MENU" /\ gameState' = "PLAYING")
          => /\ Len(segmentsRef') = SEGMENT_COUNT
             /\ \A k \in 1..SEGMENT_COUNT :
                   segmentsRef'[k] = 0 - (FIRST_SEGMENT + k - 1) * SEGMENT_LENGTH
             /\ \A k \in 1..Len(obstaclesRef') :
                   /\ obstaclesRef'[k].hits = 0
                   /\ ~obstaclesRef'[k].exploded
                   /\ obstaclesRef'[k].attached]_vars

----------------------------------------------------------------------------
(* The order of one PLAYING frame, under SpecHit.                           *)

\* The session as the obstacle loop of this step's frame finds it: the score
\* has grown by the distance and the speed timer has been stepped
BeforeLoop ==
    LET sp == SpeedTimerStep(speedTimerRef, speedMultRef, delta') IN
    [health |-> healthRef, score |-> scoreRef + Dist(delta' * speedMultRef),
     mult |-> sp.mult, timer |-> sp.timer]

\* The i-th onEvent call of this step saw the session changed by its own resolution
HeardAfterChange(i) ==
    LET before == IF i = 1 THEN BeforeLoop ELSE heard'[i - 1]
        now == heard'[i]
    IN CASE events'[i] = "DAMAGE" ->
               now = [before EXCEPT !.health = @ - DAMAGE]
         [] events'[i] = "BOOST" ->
               now = [before EXCEPT !.score = @ + BOOST_SCORE]
         [] OTHER ->
               \/ now = [before EXCEPT !.health = IF @ + HEAL > MAX_HEALTH THEN MAX_HEALTH
                                                  ELSE @ + HEAL]
               \/ now = [before EXCEPT !.mult = SLOW_MULT, !.timer = SLOW_TIME]

\* C25: in a PLAYING frame the lane easing and the jump physics come first
\* and the obstacle loop works with their results (an obstacle is resolved
\* exactly if it is in reach of the lane just eased to and not cleared by the
\* jump height just computed); each onEvent call sees health, score and speed
\* as its own resolution left them; and onUpdate comes last, with the score
\* and the health that every resolution of the frame has left.
C25_FrameOrder ==
    [][(HitFrame /\ gameStateRef = "PLAYING") =>
          /\ \A k \in 1..Len(obstaclesRef) :
                ResolvedNow(k) <=> (InReach(k) /\ ~ClearedJump(obstaclesRef[k], jumpHeight'))
          /\ Len(heard') = Len(events')
          /\ \A i \in 1..Len(events') : HeardAfterChange(i)
          /\ hud' # NoHud
          /\ hud'.score = HudScore(scoreRef')
          /\ hud'.health = healthRef'
          /\ LET last == IF heard' = <<>> THEN BeforeLoop ELSE heard'[Len(heard')]
             IN hud'.health = last.health /\ hud'.score = HudScore(last.score)]_vars

\* A frame resolved two obstacles: two events, then the HUD call with both effects
C25_Witness ==
    /\ Len(events) = 2
    /\ Len(heard) = 2
    /\ heard[1].health # heard[2].health
    /\ hud # NoHud
    /\ hud.health = heard[2].health
    /\ frames > 0

----------------------------------------------------------------------------
(* doJump, under SpecHit.                                                   *)

\* C26: a jump request while the player is airborne changes nothing: the
\* vertical velocity, the jump height and the airborne flag stay as they are
\* and the jump sound is not played; a request on the ground sets the
\* airborne flag and the velocity JUMP_FORCE and plays the jump sound once.
C26_JumpOnlyFromGround ==
    [][KeyJump =>
          IF isJumping
          THEN /\ UNCHANGED <<playerVelY, jumpHeight, isJumping>>
               /\ jumpSounds' = 0
          ELSE /\ isJumping'
               /\ playerVelY' = JUMP_FORCE * 2000
               /\ jumpSounds' = 1
               /\ UNCHANGED jumpHeight]_vars

\* A second jump request came in mid-air: the jump went on as it was
C26_Witness ==
    /\ isJumping
    /\ jumpHeight > 0
    /\ playerVelY < JUMP_FORCE * 2000
    /\ jumpSounds = 0

----------------------------------------------------------------------------
(* Specification SpecJump: jumps in a running game, at full and at half     *)
(* speed, with frames of 50 ms and 100 ms.  The animation loop keeps        *)
(* running: a frame that can be taken is eventually taken.                  *)

\* Frames of a game in which a jump may still be started
JumpFrames == 9

JumpPlans == {EmptyPlan, OneClock}

JumpStart == \E plan \in JumpPlans : gameState = "MENU" /\ KeyConfirm(plan)

JumpKey == frames < JumpFrames /\ KeyJump

JumpFrame ==
    \E gap \in {50, MAX_DELTA} :
       /\ gameStateRef = "PLAYING" => (frames < JumpFrames \/ isJumping)
       /\ Animate(gap, FALSE, <<>>)

NextJump ==
    \/ JumpStart
    \/ JumpKey
    \/ JumpFrame

SpecJump == InitWith({EmptyPlan}) /\ [][NextJump]_vars /\ WF_vars(JumpFrame)

\* C27: the jump height is never negative; whenever the player is not
\* airborne the jump height and the vertical velocity are 0; and an airborne
\* player, under PLAYING frames with a positive delta, eventually lands.
C27_JumpLands ==
    /\ [](jumpHeight >= 0)
    /\ [](~isJumping => jumpHeight = 0 /\ playerVelY = 0)
    /\ (isJumping ~> (~isJumping /\ jumpHeight = 0 /\ playerVelY = 0))

\* A jump was started on the ground (its sound was played) and has ended on
\* the ground
C27_Witness ==
    /\ ~isJumping
    /\ jumpSounds = 1
    /\ jumpHeight = 0
    /\ playerVelY = 0
    /\ frames > 1
    /\ gameStateRef = "PLAYING"

----------------------------------------------------------------------------
(* Specification SpecScore: a level played to its end and the next one      *)
(* begun, with a SPEED_BOOST and a WALL on the way, the level-select and    *)
(* style buttons pressed early in the game, and EXIT and START after the    *)
(* level.                                                                   *)

\* PLAYING frames explored after a new game
ScoreFrames == 605

\* A SPEED_BOOST and a WALL hit on the first frame
BoostAndWall == 11 :> <<Draw(0, 93, 0), Draw(0, 60, 0)>>
ScorePlans == {EmptyPlan, BoostAndWall}

\* Two animation frames may carry the same timestamp
ScoreFrame ==
    \E gap \in {0, MAX_DELTA} :
       /\ gap = 0 => (gameStateRef = "PLAYING" /\ frames < 2)
       /\ gameStateRef = "PLAYING" => frames < ScoreFrames
       /\ Animate(gap, FALSE, <<>>)

ScoreConfirm ==
    \E plan \in ScorePlans :
       ListenerState \in {"MENU", "LEVEL_COMPLETE"} /\ KeyConfirm(plan)

ScoreNav == ListenerState \in {"MENU", "LEVEL_COMPLETE"} /\ KeyMenuNav(1)

\* The panel buttons are pressed after the third frame of a game
ScoreStyle ==
    \E s \in RenderStyles : \E plan \in ScorePlans :
       gameStateRef = "PLAYING" /\ frames = 3 /\ SetRenderStyle(s, plan)

ScorePhase ==
    \E plan \in ScorePlans :
       gameStateRef = "PLAYING" /\ frames = 3 /\ SetDebugPhase("FLAT", plan)

NextScore ==
    \/ ScoreFrame
    \/ ScoreConfirm
    \/ ScoreNav
    \/ ScoreStyle
    \/ ScorePhase
    \/ Render
    \/ SyncEffects

SpecScore == InitWith({EmptyPlan}) /\ [][NextScore]_vars

\* C28: no frame taken in PLAYING, with whatever it resolves, lowers the
\* score; the resets of the style button, the level-select button and
\* startNextLevel leave it as it is; the only step that lowers it is
\* startNewGame, which sets it to 0.
C28_ScoreNeverDrops ==
    [][/\ (ScoreFrame /\ gameStateRef = "PLAYING") => scoreRef' >= scoreRef
       /\ (renderStyle' # renderStyle \/ debugPhase' # debugPhase \/ levelRef' = levelRef + 1)
          => scoreRef' = scoreRef
       /\ (gameState = "MENU" /\ gameState' = "PLAYING") => scoreRef' = 0
       /\ scoreRef' < scoreRef => (gameState = "MENU" /\ gameState' = "PLAYING")]_vars

\* The second level of a game with a SPEED_BOOST in it, after a style change
C28_Witness ==
    /\ levelRef = 2
    /\ renderStyle = "TILES"
    /\ gameStateRef = "PLAYING"
    /\ scoreRef >= 600 * SPEED_BASE * MAX_DELTA + BOOST_SCORE

----------------------------------------------------------------------------
(* Obstacle placement, under SpecRun.                                       *)

\* The obstacles of a world just built by resetGame: nothing has moved yet
JustSpawned == timeRef = PHASE_DURATION /\ Len(segmentsRef) = SEGMENT_COUNT

\* Every obstacle stands at one of the four rows, inside its segment's span
SlotsInSpan ==
    \A k \in 1..Len(obstaclesRef) :
       /\ obstaclesRef[k].z \in {TileZ(row) : row \in 0..3}
       /\ obstaclesRef[k].z >= 0
       /\ obstaclesRef[k].z <= SEGMENT_LENGTH

\* No two obstacles of one segment stand in the same lane and row
NoOverlap ==
    \A j, k \in 1..Len(obstaclesRef) :
       (j # k /\ obstaclesRef[j].seg = obstaclesRef[k].seg)
          => (obstaclesRef[j].lane # obstaclesRef[k].lane \/ obstaclesRef[j].z # obstaclesRef[k].z)

\* C29 as stated: every spawned obstacle's offset is one of 4 fixed sub-slots
\* inside its segment's span 0..SEGMENT_LENGTH, and two obstacles spawned in
\* one segment never share lane and sub-slot.
C29_SlotsInSpanNoOverlap == JustSpawned => (SlotsInSpan /\ NoOverlap)

----------------------------------------------------------------------------
(* Specification SpecPass: obstacles behind the player at the start of a    *)
(* game scroll away from it.                                                *)

\* PLAYING frames explored after a new game
PassFrames == 4

\* Row 0 of segment 10 starts 5.5 behind the player and is more than 10
\* behind it on frame 3, the frame on which row 2 of segment 12 is in the
\* hit band; segment 5 starts 45.5 behind the player
PassPlans ==
    { 10 :> <<Draw(0, r, 0)>> : r \in {60, 80, 99} }
       \cup { (10 :> <<Draw(0, 60, 0)>>) @@ (12 :> <<Draw(0, r, 2)>>) : r \in {60, 99} }
       \cup { (5 :> <<Draw(0, 10, 1), Draw(3, 88, 2)>>) @@ (11 :> <<Draw(0, 60, 0)>>) }

PassStart == \E plan \in PassPlans : gameState = "MENU" /\ KeyConfirm(plan)

PassFrame ==
    /\ gameStateRef = "PLAYING" => frames < PassFrames
    /\ Animate(MAX_DELTA, FALSE, <<>>)

NextPass ==
    \/ PassStart
    \/ HitKey
    \/ PassFrame

SpecPass == InitWith(PassPlans) /\ [][NextPass]_vars

\* Obstacle k is unresolved and more than the removal distance behind the
\* player when this step's frame checks it
FarBehind(k) ==
    /\ ~Skipped(obstaclesRef[k])
    /\ CheckedDistZ(k) > REMOVE_Z

\* C30: an unresolved obstacle that a PLAYING frame finds scrolled past the
\* player beyond the removal distance is marked resolved and removed, and
\* nothing else comes of it: no hit is counted for it, the frame's events
\* are those of the obstacles it hit, and if it hit none then health, score,
\* speed multiplier, speed timer and countdown are what the frame would have
\* made them without any obstacle.
C30_PassedRemovedWithoutEffect ==
    [][(PassFrame /\ gameStateRef = "PLAYING") =>
          /\ \A k \in 1..Len(obstaclesRef) :
                FarBehind(k) => /\ obstaclesRef'[k].exploded
                                /\ ~obstaclesRef'[k].attached
                                /\ obstaclesRef'[k].hits = 0
                                /\ ~InReach(k)
          /\ Len(events') = Cardinality({k \in 1..Len(obstaclesRef) : ResolvedNow(k)})
          /\ (\A k \in 1..Len(obstaclesRef) : ~InReach(k))
                => /\ events' = <<>>
                   /\ healthRef' = BeforeLoop.health
                   /\ scoreRef' = BeforeLoop.score
                   /\ speedMultRef' = BeforeLoop.mult
                   /\ speedTimerRef' = BeforeLoop.timer
                   /\ timeRef' = timeRef - delta'
                   /\ pendingState' = pendingState]_vars

\* A WALL went by in the player's lane without a hit and was removed far
\* behind, at full health
C30_Witness ==
    /\ gameStateRef = "PLAYING"
    /\ healthRef = MAX_HEALTH
    /\ events = <<>>
    /\ \E k \in 1..Len(obstaclesRef) :
          /\ obstaclesRef[k].type = "WALL"
          /\ obstaclesRef[k].lane = 0
          /\ obstaclesRef[k].exploded
          /\ obstaclesRef[k].hits = 0
    /\ currentLane = 0

----------------------------------------------------------------------------
(* Specification SpecSpawn: new games whose world holds one obstacle, for   *)
(* every value of the type draw in hundredths, or one obstacle of each of   *)
(* nine draws.                                                              *)

\* PLAYING frames explored after a new game
SpawnFrames == 3

\* The type draws, in hundredths: Math.random() is in [0, 1)
TypeDrawRange == 0..99

\* The lanes the single obstacle is drawn into
SpawnLanes == {0, 1, 2}

OneOfType(lane, r) == 12 :> <<Draw(lane, r, 0)>>

\* One draw from each band, two obstacles to a segment
NineDraws ==
    (13 :> <<Draw(0, 10, 0), Draw(1, 30, 0)>>) @@ (14 :> <<Draw(0, 50, 0), Draw(1, 60, 0)>>)
       @@ (15 :> <<Draw(0, 70, 0), Draw(1, 80, 0)>>) @@ (16 :> <<Draw(0, 88, 0), Draw(1, 93, 0)>>)
       @@ (17 :> <<Draw(0, 99, 0)>>)

SpawnPlans ==
    {OneOfType(lane, r) : lane \in SpawnLanes, r \in TypeDrawRange} \cup {NineDraws}

SpawnStart == \E plan \in SpawnPlans : gameState = "MENU" /\ KeyConfirm(plan)

SpawnFrame ==
    /\ gameStateRef = "PLAYING" => frames < SpawnFrames
    /\ Animate(MAX_DELTA, FALSE, <<>>)

NextSpawn ==
    \/ SpawnStart
    \/ SpawnFrame

SpecSpawn == InitWith({EmptyPlan}) /\ [][NextSpawn]_vars

\* The type the draw r, in hundredths, must give: the bands between the
\* thresholds 0.95, 0.90, 0.85, 0.75, 0.65, 0.55, 0.40 and 0.25
TypeInBand(r) ==
    CASE r \in 96..99 -> "HEART"
      [] r \in 91..95 -> "SPEED_BOOST"
      [] r \in 86..90 -> "CLOCK_BLUE"
      [] r \in 76..85 -> "BULLET"
      [] r \in 66..75 -> "EXTRUDING"
      [] r \in 56..65 -> "WALL"
      [] r \in 41..55 -> "DOOR"
      [] r \in 26..40 -> "BALL"
      [] r \in 0..25 -> "SIMPLE"

\* C31: the type of a spawned obstacle follows the thresholds on the draw r:
\* HEART above 0.95, SPEED_BOOST above 0.90, CLOCK_BLUE above 0.85, BULLET
\* above 0.75, EXTRUDING above 0.65, WALL above 0.55, DOOR above 0.40, BALL
\* above 0.25 and SIMPLE otherwise; and no live obstacle is ever an
\* INSTA_DEATH.
C31_TypeByThreshold ==
    /\ [](\A k \in 1..Len(obstaclesRef) :
             obstaclesRef[k].type \in ObstacleTypes \ {"INSTA_DEATH"})
    /\ [][(gameState = "MENU" /\ gameState' = "PLAYING") =>
             \A lane \in SpawnLanes : \A r \in TypeDrawRange :
                obstaclesRef' = SpawnObstacles(<<>>, OneOfType(lane, r)[12], 12)
                   => obstaclesRef'[1].type = TypeInBand(r)]_vars

\* A world that holds all nine types at once
C31_Witness ==
    {obstaclesRef[k].type : k \in 1..Len(obstaclesRef)} = ObstacleTypes \ {"INSTA_DEATH"}

----------------------------------------------------------------------------
(* The end of a game and the frames after it, under SpecLevel.              *)

\* GAME_OVER or LEVEL_COMPLETE has been asked for by a frame, or is already
\* the rendered state
EndRequested ==
    \/ pendingState \in {"GAME_OVER", "LEVEL_COMPLETE"}
    \/ gameState \in {"GAME_OVER", "LEVEL_COMPLETE"}

\* C32 as stated: once a frame has asked for GAME_OVER or LEVEL_COMPLETE, no
\* later frame changes score, countdown or health or resolves an obstacle
\* (until startNewGame or startNextLevel), also when it runs before the
\* loop's own copy of the state has been updated.
C32_NoAdvanceAfterEnd ==
    [][(LevelFrame /\ EndRequested) =>
          /\ UNCHANGED <<scoreRef, timeRef, healthRef>>
          /\ \A k \in 1..Len(obstaclesRef) :
                /\ obstaclesRef'[k].hits = obstaclesRef[k].hits
                /\ obstaclesRef'[k].exploded = obstaclesRef[k].exploded]_vars

\* The same for the frames that run once the loop's copy holds the new state
C32_NoAdvanceOnceSeen ==
    [][(LevelFrame /\ gameStateRef \in {"GAME_OVER", "LEVEL_COMPLETE"}) =>
          /\ UNCHANGED <<scoreRef, timeRef, healthRef>>
          /\ \A k \in 1..Len(obstaclesRef) :
                /\ obstaclesRef'[k].hits = obstaclesRef[k].hits
                /\ obstaclesRef'[k].exploded = obstaclesRef[k].exploded]_vars

\* C33 as stated: no frame runs the PLAYING block with health <= 0, and
\* PLAYING is entered or resumed only with health > 0, under every
\* interleaving of frames, the pause key, resume, startNextLevel and the
\* rendering of requested state changes.
C33_PlayingOnlyAlive ==
    [][/\ (LevelFrame /\ gameStateRef = "PLAYING") => healthRef > 0
       /\ (gameState # "PLAYING" /\ gameState' = "PLAYING") => healthRef' > 0]_vars

\* The half of C33 about entering or resuming PLAYING
C33_EnteredOnlyAlive ==
    [][(gameState # "PLAYING" /\ gameState' = "PLAYING") => healthRef' > 0]_vars

----------------------------------------------------------------------------
(* Specification SpecBand: obstacles ahead of a player who stays on the     *)
(* ground in lane 0, with frames of different lengths at full and at half   *)
(* speed.                                                                   *)

\* PLAYING frames explored after a new game
BandFrames == 14

\* Time between two animation frames, in ms
BandGaps == {30, 100, 200}

\* The draws of the static damage types SIMPLE, DOOR, WALL, EXTRUDING
StaticDraws == {10, 50, 60, 70}

\* One static obstacle 1.5, 2.5 or 4.5 ahead of the player; the same behind
\* a CLOCK that halves the speed; a BULLET 4.5, 7.5 or 10.5 ahead, alone or
\* behind a CLOCK
BandPlans ==
    { 12 :> <<Draw(0, r, 3)>> : r \in StaticDraws }
       \cup { 11 :> <<Draw(0, r, 0)>> : r \in StaticDraws }
       \cup { 12 :> <<Draw(0, 88, 3), Draw(0, r, 2)>> : r \in StaticDraws }
       \cup { 12 :> <<Draw(0, 80, row)>> : row \in 0..2 }
       \cup { 12 :> <<Draw(0, 88, 3), Draw(0, 80, 0)>> }

BandStart == \E plan \in BandPlans : gameState = "MENU" /\ KeyConfirm(plan)

BandFrame ==
    \E gap \in BandGaps :
       /\ gameStateRef = "PLAYING" => frames < BandFrames
       /\ Animate(gap, FALSE, <<>>)

NextBand ==
    \/ BandStart
    \/ BandFrame

SpecBand == InitWith({EmptyPlan}) /\ [][NextBand]_vars

StaticDamageTypes == {"SIMPLE", "WALL", "EXTRUDING", "DOOR"}

\* How far obstacle k is past the player (negative: still ahead)
DistZ(k) == ObstacleWorldZ(obstaclesRef[k], segmentsRef) - PLAYER_Z

\* Obstacle k is unresolved and has left the collision band behind the player
PassedUnhit(k) ==
    /\ ~obstaclesRef[k].exploded
    /\ obstaclesRef[k].hits = 0
    /\ DistZ(k) >= HIT_BAND

\* C34: a SIMPLE, WALL, EXTRUDING or DOOR that starts ahead of a player who
\* stays on the ground, at rest in the obstacle's lane, never gets past the
\* collision band unresolved: frame steps are at most 0.1 s at a speed
\* multiplier of at most 1.0, so the obstacle moves at most 1.6 per frame
\* and some frame finds it with |distZ| < 1.2.
C34_StaticCannotPass ==
    \A k \in 1..Len(obstaclesRef) :
       (obstaclesRef[k].type \in StaticDamageTypes /\ obstaclesRef[k].lane = targetLane)
          => ~PassedUnhit(k)

\* A WALL behind a CLOCK was hit at half speed after a run of frames
C34_Witness ==
    /\ speedMultRef = SLOW_MULT
    /\ frames > 8
    /\ healthRef = MAX_HEALTH - DAMAGE
    /\ \E k \in 1..Len(obstaclesRef) :
          /\ obstaclesRef[k].type = "WALL"
          /\ obstaclesRef[k].hits = 1
    /\ currentLane = 0
    /\ jumpHeight = 0

\* C35 as stated: a BULLET that starts ahead of a player who stays on the
\* ground, at rest in the bullet's lane, never gets past the collision band
\* unresolved, for every frame step up to 0.1 s.
C35_BulletCannotPass ==
    \A k \in 1..Len(obstaclesRef) :
       (obstaclesRef[k].type = "BULLET" /\ obstaclesRef[k].lane = targetLane)
          => ~PassedUnhit(k)

----------------------------------------------------------------------------
(* Specification SpecSpeed: the slow-down of a CLOCK_BLUE met by each of    *)
(* the resets.  A game may start with a CLOCK and five damage obstacles in  *)
(* lane 0, so that it is lost at half speed on frame 10; the segment        *)
(* recycled on frame 463 may get a CLOCK that is picked up just before the  *)
(* level ends; the level-select and style buttons are pressed while the     *)
(* timer runs.                                                              *)

\* PLAYING frames explored after a new game
SpeedFrames == 603

\* Three hits and a CLOCK on the first frame, two more hits at half speed
SlowAndLost ==
    (11 :> <<Draw(0, 60, 0), Draw(0, 88, 0)>>)
       @@ (12 :> <<Draw(0, 60, 3), Draw(0, 50, 3)>>)
       @@ (13 :> <<Draw(0, 70, 3), Draw(0, 10, 3)>>)
SpeedPlans == {EmptyPlan, OneClock, SlowAndLost}

\* The CLOCK the segment recycled on frame 463 may get, in the row nearest the player
SpeedLateDraws == { <<Draw(0, 88, 3)>> }

SpeedFrame ==
    \E draw \in {<<>>} \cup SpeedLateDraws :
       /\ gameStateRef = "PLAYING" => frames < SpeedFrames
       /\ gameStateRef = "PAUSED" => frameLag + MAX_DELTA <= LevelLag
       /\ draw # <<>> => (timeRef = LateDrawTime /\ speedMultRef = FULL_MULT)
       /\ Animate(MAX_DELTA, FALSE, draw)

SpeedConfirm ==
    \E plan \in (IF ListenerState = "MENU" THEN SpeedPlans ELSE {EmptyPlan}) :
       KeyConfirm(plan)

\* The pause key and the panel buttons, pressed after the second frame of a
\* game when it runs at half speed
SpeedMoment == frames = 2 /\ speedMultRef = SLOW_MULT /\ gameState = "PLAYING"

SpeedEscape == SpeedMoment /\ KeyEscape

SpeedStyle ==
    /\ SpeedMoment
    /\ renderStyle = "GRID"
    /\ SetRenderStyle("TILES", OneClock)

SpeedPhase ==
    /\ SpeedMoment
    /\ debugPhase = NoPhase
    /\ \E p \in {"ROUND", "FLAT"} : \E plan \in {EmptyPlan, OneClock} : SetDebugPhase(p, plan)

NextSpeed ==
    \/ SpeedFrame
    \/ Render
    \/ SyncEffects
    \/ SpeedEscape
    \/ SpeedConfirm
    \/ SpeedStyle
    \/ SpeedPhase

SpecSpeed == InitWith({EmptyPlan}) /\ [][NextSpeed]_vars

\* A step of startNewGame, startNextLevel, forceTopology or a style change
ResetStep ==
    \/ gameState \in {"MENU", "GAME_OVER", "LEVEL_COMPLETE"} /\ gameState' = "PLAYING"
    \/ debugPhase' # debugPhase /\ debugPhase' # phaseRef
    \/ renderStyle' # renderStyle

\* C36: the speed multiplier is always 1.0 or 0.5, and in every state a frame
\* or a handler leaves behind a multiplier of 0.5 comes with a slow-down timer
\* above zero; startNewGame, startNextLevel, forceTopology and the style
\* change set the multiplier to 1.0 and leave the timer as it was.
C36_SlowOnlyWhileTimerRuns ==
    /\ [](speedMultRef \in {FULL_MULT, SLOW_MULT})
    /\ [](speedMultRef = SLOW_MULT => speedTimerRef > 0)
    /\ [][ResetStep => (speedMultRef' = FULL_MULT /\ speedTimerRef' = speedTimerRef)]_vars

\* The second level was started at half speed: the multiplier is 1.0 again
\* while the timer of the CLOCK picked up at the end of the first still runs
C36_Witness ==
    /\ levelRef = 2
    /\ gameState = "PLAYING"
    /\ timeRef = PHASE_DURATION
    /\ speedMultRef = FULL_MULT
    /\ speedTimerRef > 0

----------------------------------------------------------------------------
(* Specification SpecRetire: games long enough for the segment the player   *)
(* starts on to be retired (frame 63 at full speed), with obstacles in the  *)
(* segments behind the player, beside them and ahead of them.               *)

\* PLAYING frames explored after a new game
RetireFrames == 66

\* Obstacles in the first two segments (80 and 72 behind the start), in the
\* segment behind the player's, in the player's and in the next, in the
\* player's lane and beside it
RetirePlans ==
    { (1 :> <<Draw(0, 10, 0), Draw(0, 80, 3)>>)
         @@ (2 :> <<Draw(1, 60, 1)>>)
         @@ (11 :> <<Draw(0, 60, 0), Draw(3, 88, 0)>>),
      (10 :> <<Draw(0, 60, 0), Draw(0, 80, 1)>>)
         @@ (11 :> <<Draw(0, 99, 0), Draw(1, 80, 2)>>)
         @@ (12 :> <<Draw(0, 80, 0)>>) }

\* What a recycled segment may get
RetireDraws == { <<>>, <<Draw(0, 60, 0)>> }

RetireStart == \E plan \in RetirePlans : gameState = "MENU" /\ KeyConfirm(plan)

\* A lane key in the first frames of the game
RetireKey == \E dir \in {-1, 1} : frames < 3 /\ LaneAtRest /\ KeyLane(dir)

RetireFrame ==
    \E draw \in RetireDraws :
       /\ gameStateRef = "PLAYING" => frames < RetireFrames
       /\ draw # <<>> => frames = 12
       /\ Animate(MAX_DELTA, FALSE, draw)

NextRetire ==
    \/ RetireStart
    \/ RetireKey
    \/ RetireFrame

SpecRetire == InitWith(RetirePlans) /\ [][NextRetire]_vars

\* This step is a frame that retired the front segment
Retires ==
    /\ frames' = frames + 1
    /\ segmentsRef # <<>>
    /\ Head(segmentsRef') < Head(segmentsRef)

\* C37: the frame that retires the front segment finds every obstacle of that
\* segment resolved already, so that no unresolved obstacle is ever left with
\* a retired segment, and no frame counts a hit for an obstacle whose segment
\* is gone.
C37_RetiredSegmentsAreResolved ==
    /\ [][Retires => \A k \in 1..Len(obstaclesRef) :
                        obstaclesRef[k].seg = 1 => obstaclesRef[k].exploded]_vars
    /\ [](\A k \in 1..Len(obstaclesRef) :
             obstaclesRef[k].seg = 0 => obstaclesRef[k].exploded)
    /\ [][frames' = frames + 1 =>
            \A k \in 1..Len(obstaclesRef) :
               obstaclesRef[k].seg = 0 => obstaclesRef'[k].hits = obstaclesRef[k].hits]_vars

\* The segment the player started on has been retired: its WALL was hit, its
\* CLOCK in another lane passed, and both were resolved long before
C37_Witness ==
    /\ frames > 63
    /\ \A k \in 1..Len(obstaclesRef) : obstaclesRef[k].seg # 1
    /\ \E k \in 1..Len(obstaclesRef) :
          obstaclesRef[k].type = "WALL" /\ obstaclesRef[k].hits = 1
    /\ \E k \in 1..Len(obstaclesRef) :
          /\ obstaclesRef[k].type = "CLOCK_BLUE"
          /\ obstaclesRef[k].hits = 0
          /\ obstaclesRef[k].exploded

----------------------------------------------------------------------------
(* Property checked under SpecLevel.                                       *)

\* C38: whenever a menu is shown (the state is not PLAYING) the selection
\* index is that of one of its options, so that Enter or the space bar
\* performs a listed action.
C38_SelectionNamesAnOption ==
    gameState # "PLAYING" => menuSelection + 1 \in 1..Len(MenuOptions(gameState))

----------------------------------------------------------------------------
(* Specification SpecMusic: the music player.  Games are started, paused,   *)
(* resumed and left, lost on the sixth frame or not, and the play button    *)
(* is clicked while the game runs.                                          *)

\* PLAYING frames explored after a new game
MusicFrames == 7

MusicConfirm ==
    \E plan \in (IF ListenerState \in {"MENU", "GAME_OVER"} THEN {EmptyPlan, SixHits}
                 ELSE {EmptyPlan}) :
       KeyConfirm(plan)

MusicFrame ==
    /\ gameStateRef = "PLAYING" => frames < MusicFrames
    /\ gameStateRef = "PAUSED" => frameLag + MAX_DELTA <= LevelLag
    /\ Animate(MAX_DELTA, FALSE, <<>>)

NextMusic ==
    \/ MusicConfirm
    \/ MenuNav
    \/ KeyEscape
    \/ TogglePlay
    \/ MusicFrame
    \/ Render
    \/ SyncEffects

SpecMusic == InitWith({EmptyPlan}) /\ [][NextMusic]_vars

\* C39: the play button's flag isMusicPlaying equals the sequencer's
\* isPlaying flag in every state, and while the game is PAUSED the sequencer
\* is stopped.
C39_MusicFlagsAgree ==
    /\ isMusicPlaying = isPlaying
    /\ gameState = "PAUSED" => ~isPlaying

----------------------------------------------------------------------------
(* Specification SpecKeys: the lane and jump keys as keys that go down,     *)
(* repeat and go up, up to two of them held at once, in the menu, in the    *)
(* game and across a pause.                                                 *)

\* PLAYING frames explored after a new game
KeysFrames == 1
\* Keys held at once
MaxHeld == 2
\* The keys pressed: the space bar and both keys for "left"
KeysTried == {" ", "a", "ArrowLeft"}

\* A key goes down; the lane keys while the player is at most one lane from the start
KeysPress ==
    \E key \in KeysTried :
       /\ Cardinality(heldKeys) < MaxHeld
       /\ key \in LeftKeys => targetLane \in {0, LANE_COUNT_ROUND - 1}
       /\ KeyPress(key, EmptyPlan)

KeysRepeat == KeyRepeat(EmptyPlan)

KeysRelease == \E key \in KeysTried : KeyRelease(key)

KeysConfirm == KeyConfirm(EmptyPlan)

KeysFrame ==
    /\ gameStateRef = "PLAYING" => frames < KeysFrames
    /\ gameStateRef = "PAUSED" => frameLag + MAX_DELTA <= LevelLag
    /\ Animate(MAX_DELTA, FALSE, <<>>)

NextKeys ==
    \/ KeysPress
    \/ KeysRepeat
    \/ KeysRelease
    \/ KeysConfirm
    \/ KeyEscape
    \/ KeysFrame

SpecKeys == InitWith({EmptyPlan}) /\ [][NextKeys]_vars

\* C40: a lane or jump key that goes down while the game is PLAYING makes
\* exactly one moveLeft, moveRight or jump request, and no step in which no
\* key goes down or up (a repeated keydown of a held key, a frame, a change
\* of state) makes a request.
C40_OnePressOneRequest ==
    [][/\ \A k \in Keys :
             (k \notin heldKeys /\ k \in heldKeys'
                 /\ gameState = "PLAYING" /\ ListenerState = "PLAYING")
                => requests'[k] = 1
       /\ heldKeys' = heldKeys => requests' = requests]_vars

=============================================================================
